---- MODULE Spec2Model ----
(***************************************************************************)
(* seedrcc: the authenticated request engine of the Seedr client           *)
(* (src/seedrcc/client.py, mirrored by src/seedrcc/async_client.py).       *)
(*                                                                         *)
(* One client holds one Token and an optional on_token_refresh callback.   *)
(* A public endpoint method enters _api_request; _api_request may enter    *)
(* _refresh_access_token, which itself obtains the new access token        *)
(* through a nested _api_request against the token / device-authorize      *)
(* endpoint.  The Python call stack is kept explicitly in `stack`, one     *)
(* frame per live _api_request invocation.                                 *)
(*                                                                         *)
(* The Token's serialized forms (src/seedrcc/token.py) are a second state  *)
(* machine, TokenSpec: a Token is encoded, the encoded form may be         *)
(* replaced by a malformed one, and it is read back.                       *)
(***************************************************************************)
EXTENDS Integers, Sequences, FiniteSets, TLC

(* ------------------------------------------------------------------ *)
(* Bounds of the model                                                 *)
(* ------------------------------------------------------------------ *)
\* deepest nesting of _api_request invocations that is explored
MaxDepth == 3
\* number of endpoint calls made one after the other on the client
MaxCalls == 2
\* longest field of the Tokens that are serialized (two longer secrets are added)
MaxFieldLen == 1

(* ------------------------------------------------------------------ *)
(* Values                                                              *)
(* ------------------------------------------------------------------ *)
\* Python None for an Optional[str] field
None == "<None>"
\* a key that a JSON object does not have
Absent == "<absent>"

RESOURCE_URL == "oauth_test/resource.php"
TOKEN_URL == "oauth_test/token.php"
DEVICE_AUTHORIZE_URL == "api/device/authorize"

\* truthiness of an Optional[str]: None and "" are falsy
Truthy(v) == v # None /\ v # ""

\* Token(access_token, refresh_token, device_code), a frozen dataclass
Token(at, rt, dc) == [access_token |-> at, refresh_token |-> rt, device_code |-> dc]

\* access tokens the server hands out in a body
NewAccessTokens == {"NEW", "NEW2"}
\* values the optional fields of the initial Token are drawn from
RefreshTokenValues == {None, "", "R"}
DeviceCodeValues == {None, "", "D"}
\* endpoint names passed as func by the endpoint methods
Funcs == {"get_settings", "delete"}

\* HTTP error statuses the transport can answer with
ErrorStatuses == {400, 401, 403, 500, 503}

\* what one client.request() can end in
\* (`rest` stands for the expires_in and token_type keys of a token response)
Outcome(k, s, e, r, at, rest) ==
    [kind |-> k, status |-> s, error |-> e, result |-> r, access_token |-> at, rest |-> rest]
NoOutcome == Outcome("none", 0, Absent, Absent, Absent, Absent)
\* JSON object bodies: the resource endpoint's carry `error` / `result`, the token and
\* device-authorize endpoints' may carry an access_token as well
ObjectBodies(url) ==
    { Outcome("object", 200, e, r, tr[1], tr[2]) :
        e \in {Absent, "expired_token", "some_message"},
        r \in {Absent, "true", "false", "parsing_error"},
        tr \in IF url = RESOURCE_URL THEN {<<Absent, Absent>>}
               ELSE {<<Absent, Absent>>} \cup (NewAccessTokens \X {Absent, "present"}) }
OutcomesOf(url) ==
    {Outcome("neterr", 0, Absent, Absent, Absent, Absent)}
      \cup { Outcome("status", s, Absent, Absent, Absent, Absent) : s \in ErrorStatuses }
      \cup {Outcome("invalid", 200, Absent, Absent, Absent, Absent)}
      \cup {Outcome("array", 200, Absent, Absent, Absent, Absent)}
      \cup ObjectBodies(url)

\* the same sets, computed once for each endpoint
OutcomesByUrl == [u \in {RESOURCE_URL, TOKEN_URL, DEVICE_AUTHORIZE_URL} |-> OutcomesOf(u)]
Outcomes(url) == OutcomesByUrl[url]
\* every outcome of a request, to whichever endpoint
AnyOutcome == UNION {Outcomes(u) : u \in {RESOURCE_URL, TOKEN_URL}}

\* isinstance(data, dict)
IsDict(d) == d.kind = "object"
\* (variant: any in-body error is taken for the expiry signal)
IsExpired_anyError(d) == IsDict(d) /\ d.error # Absent
\* isinstance(data, dict) and data.get("error") == "expired_token"
IsExpired(d) == IsDict(d) /\ d.error = "expired_token"

(* ------------------------------------------------------------------ *)
(* Exceptions                                                          *)
(* ------------------------------------------------------------------ *)
\* an exception: its class, its message and the status of its response (0: no response)
Exc(t, m, s) == [type |-> t, msg |-> m, status |-> s]
NoExc == Exc("none", "", 0)

\* _make_http_request: the exception it raises for an outcome, NoExc when it returns the body
MakeHttpRequestRaises(o) ==
    CASE o.kind = "status" /\ o.status >= 500 /\ o.status < 600 ->
            Exc("ServerError", "Server error", o.status)
      [] o.kind = "status" -> Exc("APIError", "API error", o.status)
      [] o.kind = "neterr" -> Exc("NetworkError", "request error", 0)
      [] o.kind = "invalid" -> Exc("JSONDecodeError", "invalid json", 0)
      [] OTHER -> NoExc

\* (variant: the except clause re-raises every APIError as it is)
ExceptAPIError_reraise(e) == e
\* the except clause of _api_request: an APIError with a 401 response becomes AuthenticationError
ExceptAPIError(e) ==
    IF e.type = "APIError" /\ e.status = 401
    THEN Exc("AuthenticationError", "Invalid or expired token.", e.status)
    ELSE e

\* RefreshTokenResult.from_dict(response): cls(**filtered_data) needs access_token,
\* expires_in and token_type, which have no defaults
RefreshTokenResultRaises(d) ==
    IF d.access_token = Absent \/ d.rest = Absent
    THEN Exc("TypeError", "__init__() missing required positional arguments", 0)
    ELSE NoExc

\* (variant: only result == false counts as a failure)
ResultCheckRaises_onlyFalse(d) ==
    IF IsDict(d) /\ d.result = "false"
    THEN Exc("APIError", IF d.error # Absent THEN d.error ELSE "Unknown API error", 0)
    ELSE NoExc
\* the result check of _api_request: the APIError raised for a body, NoExc when it is returned
ResultCheckRaises(d) ==
    IF IsDict(d) /\ d.result # Absent /\ d.result # "true"
    THEN Exc("APIError", IF d.error # Absent THEN d.error ELSE "Unknown API error", 0)
    ELSE NoExc

(* ------------------------------------------------------------------ *)
(* Token serialization (src/seedrcc/token.py)                          *)
(* Text is a sequence of code points, bytes a sequence of 0..255.      *)
(* ------------------------------------------------------------------ *)
\* Python values as they occur in a Token's fields and in parsed JSON
PyValue(t, s, pairs) == [t |-> t, s |-> s, pairs |-> pairs]
PyNone == PyValue("None", <<>>, <<>>)
PyStr(s) == PyValue("str", s, <<>>)
PyInt(s) == PyValue("int", s, <<>>)
PyBool(s) == PyValue("bool", s, <<>>)
PyList(items) == PyValue("list", <<>>, items)
PyDict(pairs) == PyValue("dict", <<>>, pairs)

\* the field names of the Token dataclass, as text
KeyAccessToken == <<97, 99, 99, 101, 115, 115, 95, 116, 111, 107, 101, 110>>
KeyRefreshToken == <<114, 101, 102, 114, 101, 115, 104, 95, 116, 111, 107, 101, 110>>
KeyDeviceCode == <<100, 101, 118, 105, 99, 101, 95, 99, 111, 100, 101>>
TokenFields == {KeyAccessToken, KeyRefreshToken, KeyDeviceCode}

\* dict helpers: the keys of a dict, and dict[key] (the last pair wins)
Keys(d) == { d.pairs[i][1] : i \in 1..Len(d.pairs) }
Get(d, key, default) ==
    LET idx == { i \in 1..Len(d.pairs) : d.pairs[i][1] = key }
    IN IF idx = {} THEN default
       ELSE d.pairs[CHOOSE i \in idx : \A j \in idx : j <= i][2]

\* asdict(self, dict_factory=lambda x: {k: v for (k, v) in x if v is not None})
FieldPairs(T) ==
    << <<KeyAccessToken, T.access_token>>,
       <<KeyRefreshToken, T.refresh_token>>,
       <<KeyDeviceCode, T.device_code>> >>
IsNotNone(p) == p[2] # PyNone
\* (variant: the fields are filtered by truthiness)
ToDict_falsy(T) ==
    LET IsTruthy(p) == p[2] # PyNone /\ p[2] # PyStr(<<>>)
    IN PyDict(SelectSeq(FieldPairs(T), IsTruthy))
\* (variant: no field is filtered)
ToDict_all(T) == PyDict(FieldPairs(T))
\* Token.to_dict
ToDict(T) == PyDict(SelectSeq(FieldPairs(T), IsNotNone))

\* --- json.dumps (ensure_ascii, separators ", " and ": ") ---
Hex(d) == IF d < 10 THEN 48 + d ELSE 87 + d
JsonEscape(c) ==
    CASE c = 34 -> <<92, 34>>
      [] c = 92 -> <<92, 92>>
      [] c = 10 -> <<92, 110>>
      [] c = 13 -> <<92, 114>>
      [] c = 9 -> <<92, 116>>
      [] c = 8 -> <<92, 98>>
      [] c = 12 -> <<92, 102>>
      [] OTHER -> IF c < 32 \/ c > 126
                  THEN <<92, 117, Hex(c \div 4096), Hex((c \div 256) % 16),
                         Hex((c \div 16) % 16), Hex(c % 16)>>
                  ELSE <<c>>
RECURSIVE JsonEscapeAll(_)
JsonEscapeAll(s) ==
    IF s = <<>> THEN <<>>
    ELSE IF Len(s) = 1 THEN JsonEscape(s[1])
    ELSE JsonEscapeAll(SubSeq(s, 1, Len(s) \div 2))
         \o JsonEscapeAll(SubSeq(s, (Len(s) \div 2) + 1, Len(s)))
JsonString(s) == <<34>> \o JsonEscapeAll(s) \o <<34>>
JsonNull == <<110, 117, 108, 108>>
JsonScalar(v) == IF v.t = "str" THEN JsonString(v.s) ELSE JsonNull
RECURSIVE JsonMembers(_)
JsonMembers(pairs) ==
    IF pairs = <<>> THEN <<>>
    ELSE JsonString(Head(pairs)[1]) \o <<58, 32>> \o JsonScalar(Head(pairs)[2])
         \o (IF Len(pairs) > 1 THEN <<44, 32>> ELSE <<>>)
         \o JsonMembers(Tail(pairs))
JsonDumps(d) == <<123>> \o JsonMembers(d.pairs) \o <<125>>

\* --- json.loads ---
At(s, i) == IF i >= 1 /\ i <= Len(s) THEN s[i] ELSE -1
IsWs(c) == c \in {32, 9, 10, 13}
RECURSIVE SkipWs(_, _)
SkipWs(s, i) == IF IsWs(At(s, i)) THEN SkipWs(s, i + 1) ELSE i
Parsed(p, v) == [ok |-> TRUE, pos |-> p, v |-> v]
ParseFail == [ok |-> FALSE, pos |-> 0, v |-> PyNone]
HexVal(c) ==
    CASE c \in 48..57 -> c - 48
      [] c \in 97..102 -> c - 87
      [] c \in 65..70 -> c - 55
      [] OTHER -> -1
SimpleEscape(e) ==
    CASE e = 34 -> 34 [] e = 92 -> 92 [] e = 47 -> 47 [] e = 98 -> 8
      [] e = 102 -> 12 [] e = 110 -> 10 [] e = 114 -> 13 [] e = 116 -> 9
      [] OTHER -> -1
\* the string whose opening quote precedes position i
RECURSIVE ScanString(_, _, _)
ScanString(s, i, acc) ==
    LET c == At(s, i)
        e == At(s, i + 1)
        h == [k \in 1..4 |-> HexVal(At(s, i + 1 + k))]
    IN IF c = -1 \/ c < 32 THEN ParseFail
       ELSE IF c = 34 THEN Parsed(i + 1, PyStr(acc))
       ELSE IF c # 92 THEN ScanString(s, i + 1, Append(acc, c))
       ELSE IF SimpleEscape(e) # -1 THEN ScanString(s, i + 2, Append(acc, SimpleEscape(e)))
       ELSE IF e = 117 /\ \A k \in 1..4 : h[k] # -1
            THEN ScanString(s, i + 6, Append(acc, 4096 * h[1] + 256 * h[2] + 16 * h[3] + h[4]))
       ELSE ParseFail
IsDigit(c) == c \in 48..57
RECURSIVE SkipDigits(_, _)
SkipDigits(s, i) == IF IsDigit(At(s, i)) THEN SkipDigits(s, i + 1) ELSE i
\* -?(0|[1-9][0-9]*) starting at position i
ScanNumber(s, i) ==
    LET j == IF At(s, i) = 45 THEN i + 1 ELSE i
        k == IF At(s, j) = 48 THEN j + 1 ELSE SkipDigits(s, j)
    IN IF k = j THEN ParseFail ELSE Parsed(k, PyInt(SubSeq(s, i, k - 1)))
HasWord(s, i, word) == i + Len(word) - 1 <= Len(s) /\ SubSeq(s, i, i + Len(word) - 1) = word

RECURSIVE ParseValue(_, _), ObjectMembers(_, _, _), ArrayItems(_, _, _)
ParseValue(s, i) ==
    LET c == At(s, i)
    IN CASE c = 34 -> ScanString(s, i + 1, <<>>)
         [] c = 123 ->
              LET j == SkipWs(s, i + 1)
              IN IF At(s, j) = 125 THEN Parsed(j + 1, PyDict(<<>>))
                 ELSE IF At(s, j) # 34 THEN ParseFail
                 ELSE ObjectMembers(s, j, <<>>)
         [] c = 91 ->
              LET j == SkipWs(s, i + 1)
              IN IF At(s, j) = 93 THEN Parsed(j + 1, PyList(<<>>))
                 ELSE ArrayItems(s, j, <<>>)
         [] c = 110 -> IF HasWord(s, i, JsonNull) THEN Parsed(i + 4, PyNone) ELSE ParseFail
         [] c = 116 -> IF HasWord(s, i, <<116, 114, 117, 101>>)
                       THEN Parsed(i + 4, PyBool(<<1>>)) ELSE ParseFail
         [] c = 102 -> IF HasWord(s, i, <<102, 97, 108, 115, 101>>)
                       THEN Parsed(i + 5, PyBool(<<0>>)) ELSE ParseFail
         [] c = 45 \/ IsDigit(c) -> ScanNumber(s, i)
         [] OTHER -> ParseFail
\* the members of an object, position j at the opening quote of a key
ObjectMembers(s, j, pairs) ==
    LET k == ScanString(s, j + 1, <<>>)
        j2 == SkipWs(s, k.pos)
        val == ParseValue(s, SkipWs(s, j2 + 1))
        j4 == SkipWs(s, val.pos)
        more == Append(pairs, <<k.v.s, val.v>>)
        j5 == SkipWs(s, j4 + 1)
    IN IF ~k.ok THEN ParseFail
       ELSE IF At(s, j2) # 58 THEN ParseFail
       ELSE IF ~val.ok THEN ParseFail
       ELSE IF At(s, j4) = 125 THEN Parsed(j4 + 1, PyDict(more))
       ELSE IF At(s, j4) = 44 /\ At(s, j5) = 34 THEN ObjectMembers(s, j5, more)
       ELSE ParseFail
\* the items of an array, position j at the first character of an item
ArrayItems(s, j, items) ==
    LET val == ParseValue(s, j)
        j2 == SkipWs(s, val.pos)
        more == Append(items, <<<<>>, val.v>>)
    IN IF ~val.ok THEN ParseFail
       ELSE IF At(s, j2) = 93 THEN Parsed(j2 + 1, PyList(more))
       ELSE IF At(s, j2) = 44 THEN ArrayItems(s, SkipWs(s, j2 + 1), more)
       ELSE ParseFail
\* json.loads(text): one value between optional whitespace, nothing after it
JsonLoads(s) ==
    LET v == ParseValue(s, SkipWs(s, 1))
    IN IF v.ok /\ SkipWs(s, v.pos) = Len(s) + 1 THEN v ELSE ParseFail

\* --- str.encode("utf-8") / bytes.decode("utf-8") ---
Utf8Bytes(c) ==
    IF c < 128 THEN <<c>>
    ELSE IF c < 2048 THEN <<192 + (c \div 64), 128 + (c % 64)>>
    ELSE <<224 + (c \div 4096), 128 + ((c \div 64) % 64), 128 + (c % 64)>>
RECURSIVE Utf8Encode(_)
Utf8Encode(s) ==
    IF s = <<>> THEN <<>>
    ELSE IF Len(s) = 1 THEN Utf8Bytes(s[1])
    ELSE Utf8Encode(SubSeq(s, 1, Len(s) \div 2))
         \o Utf8Encode(SubSeq(s, (Len(s) \div 2) + 1, Len(s)))
Decoded(s) == [ok |-> TRUE, s |-> s]
DecodeFail == [ok |-> FALSE, s |-> <<>>]
IsCont(b) == b \in 128..191
\* the length of the character a byte starts: 0 for a byte that starts none
Utf8Len(x) ==
    IF x < 128 THEN 1
    ELSE IF x \in 194..223 THEN 2
    ELSE IF x \in 224..239 THEN 3
    ELSE IF x \in 240..244 THEN 4
    ELSE 0
\* the byte at i starts a well-formed character
Utf8Starts(b, i) ==
    /\ Utf8Len(b[i]) > 0
    /\ \A k \in 1..(Utf8Len(b[i]) - 1) : IsCont(At(b, i + k))
    /\ (b[i] = 224 => At(b, i + 1) >= 160) /\ (b[i] = 237 => At(b, i + 1) <= 159)
    /\ (b[i] = 240 => At(b, i + 1) >= 144) /\ (b[i] = 244 => At(b, i + 1) <= 143)
\* the byte at i belongs to the character started at an earlier byte
Utf8Covered(b, i) ==
    \E j \in 1..(i - 1) : Utf8Starts(b, j) /\ j + Utf8Len(b[j]) > i
Utf8CodePoint(b, i) ==
    CASE Utf8Len(b[i]) = 1 -> b[i]
      [] Utf8Len(b[i]) = 2 -> (b[i] - 192) * 64 + (b[i + 1] - 128)
      [] Utf8Len(b[i]) = 3 -> (b[i] - 224) * 4096 + (b[i + 1] - 128) * 64 + (b[i + 2] - 128)
      [] OTHER -> (b[i] - 240) * 262144 + (b[i + 1] - 128) * 4096
                  + (b[i + 2] - 128) * 64 + (b[i + 3] - 128)
\* bytes.decode("utf-8"), strict
Utf8Decode(b) ==
    LET Starts(i) == Utf8Starts(b, i)
        starts == SelectSeq([i \in 1..Len(b) |-> i], Starts)
    IN IF \A i \in 1..Len(b) : Utf8Starts(b, i) \/ Utf8Covered(b, i)
       THEN Decoded([k \in 1..Len(starts) |-> Utf8CodePoint(b, starts[k])])
       ELSE DecodeFail

\* --- base64.b64encode / base64.b64decode (validate=False) ---
B64Char(v) ==
    IF v < 26 THEN 65 + v
    ELSE IF v < 52 THEN 97 + (v - 26)
    ELSE IF v < 62 THEN 48 + (v - 52)
    ELSE IF v = 62 THEN 43 ELSE 47
B64Val(c) ==
    CASE c \in 65..90 -> c - 65
      [] c \in 97..122 -> c - 97 + 26
      [] c \in 48..57 -> c - 48 + 52
      [] c = 43 -> 62
      [] c = 47 -> 63
      [] OTHER -> -1

\* b64encode: three bytes make four characters, the last group is padded
B64Encode(b) ==
    LET n == Len(b)
        Byte(i) == IF i <= n THEN b[i] ELSE 0
        Ch(k) ==
            LET g == 3 * ((k - 1) \div 4)
                r == (k - 1) % 4
            IN CASE r = 0 -> B64Char(Byte(g + 1) \div 4)
                 [] r = 1 -> B64Char((Byte(g + 1) % 4) * 16 + (Byte(g + 2) \div 16))
                 [] r = 2 -> IF g + 2 > n THEN 61
                             ELSE B64Char((Byte(g + 2) % 16) * 4 + (Byte(g + 3) \div 64))
                 [] OTHER -> IF g + 3 > n THEN 61 ELSE B64Char(Byte(g + 3) % 64)
    IN [k \in 1..(4 * ((n + 2) \div 3)) |-> Ch(k)]
\* binascii.a2b_base64 without strict mode: characters outside the alphabet
\* are skipped; a pad that completes a group of two or three data characters
\* ends the input; otherwise a dangling group fails
B64Decode(s) ==
    LET IsData(c) == B64Val(c) # -1
        Quad(i) == Cardinality({j \in 1..(i - 1) : IsData(s[j])}) % 4
        Pads(i) == Cardinality({j \in 1..i : /\ s[j] = 61
                                              /\ \A k \in j..i : ~IsData(s[k])})
        Stops(i) == s[i] = 61 /\ Quad(i) >= 2 /\ Quad(i) + Pads(i) >= 4
        stops == {i \in 1..Len(s) : Stops(i)}
        stop == IF stops = {} THEN Len(s) + 1
                ELSE CHOOSE i \in stops : \A j \in stops : i <= j
        data == SelectSeq(SubSeq(s, 1, stop - 1), IsData)
        q == Len(data) % 4
        V(i) == B64Val(data[i])
        Byte(k) ==
            LET g == 4 * ((k - 1) \div 3)
                r == (k - 1) % 3
            IN CASE r = 0 -> V(g + 1) * 4 + (V(g + 2) \div 16)
                 [] r = 1 -> (V(g + 2) % 16) * 16 + (V(g + 3) \div 4)
                 [] OTHER -> (V(g + 3) % 4) * 64 + V(g + 4)
    IN IF \E i \in 1..Len(s) : s[i] > 127 THEN DecodeFail
       ELSE IF stops = {} /\ q # 0 THEN DecodeFail
       ELSE Decoded([k \in 1..(3 * (Len(data) \div 4) + (IF q = 0 THEN 0 ELSE q - 1)) |-> Byte(k)])

\* --- the Token methods ---
Got(T) == [kind |-> "token", tok |-> T, exc |-> "none"]
Fails(t) == [kind |-> "raised", tok |-> Token(PyNone, PyNone, PyNone), exc |-> t]
NoResult == [kind |-> "none", tok |-> Token(PyNone, PyNone, PyNone), exc |-> "none"]
\* a result, with the module whose Token class gave it
CalledOn(module, r) == [module |-> module, kind |-> r.kind, tok |-> r.tok, exc |-> r.exc]
NotCalled == CalledOn("none", NoResult)
\* cls(**data)
Construct(d) ==
    IF d.t # "dict" THEN Fails("TypeError")
    ELSE IF ~(Keys(d) \subseteq TokenFields) THEN Fails("TypeError")
    ELSE IF KeyAccessToken \notin Keys(d) THEN Fails("TypeError")
    ELSE Got(Token(Get(d, KeyAccessToken, PyNone), Get(d, KeyRefreshToken, PyNone),
                   Get(d, KeyDeviceCode, PyNone)))
\* Token.from_dict: except TypeError -> TokenError
FromDict(d) ==
    IF Construct(d).exc = "TypeError" THEN Fails("TokenError") ELSE Construct(d)
\* Token.to_json
ToJson(T) == JsonDumps(ToDict(T))
\* Token.from_json: except json.JSONDecodeError -> TokenError
FromJson(s) ==
    IF ~JsonLoads(s).ok THEN Fails("TokenError") ELSE FromDict(JsonLoads(s).v)
\* Token.to_base64
ToBase64(T) == B64Encode(Utf8Encode(ToJson(T)))
\* Token.from_base64: except (ValueError, TypeError) -> TokenError
FromBase64(s) ==
    LET raw == B64Decode(s)
        txt == Utf8Decode(raw.s)
    IN IF ~raw.ok THEN Fails("TokenError")
       ELSE IF ~txt.ok THEN Fails("TokenError")
       ELSE FromJson(txt.s)
\* Token.__repr__: _mask shows value[:5] and four stars, "None" for None
Prefix(s, n) == SubSeq(s, 1, IF Len(s) < n THEN Len(s) ELSE n)
MaskLen == 5
Mask(v) ==
    IF v = PyNone THEN <<78, 111, 110, 101>> ELSE Prefix(v.s, MaskLen) \o <<42, 42, 42, 42>>
Repr(T) ==
    <<84, 111, 107, 101, 110, 40, 97, 99, 99, 101, 115, 115, 95, 116, 111, 107, 101, 110, 61>>
    \o Mask(T.access_token)
    \o <<44, 32, 114, 101, 102, 114, 101, 115, 104, 95, 116, 111, 107, 101, 110, 61>>
    \o Mask(T.refresh_token)
    \o <<44, 32, 100, 101, 118, 105, 99, 101, 95, 99, 111, 100, 101, 61>>
    \o Mask(T.device_code)
    \o <<41>>
\* Token.__str__
Str(T) == ToJson(T)
\* _token.py: from_dict is cls(**data), from_json is from_dict(json.loads(s))
LegacyFromDict(d) == Construct(d)
LegacyFromJson(s) ==
    IF ~JsonLoads(s).ok THEN Fails("JSONDecodeError") ELSE LegacyFromDict(JsonLoads(s).v)

(* ------------------------------------------------------------------ *)
(* The factories and the lifecycle of the HTTP client                   *)
(* (Seedr.from_password / from_device_code / from_refresh_token,        *)
(*  Seedr._initialize_client, Seedr.__init__, Seedr.close)              *)
(* ------------------------------------------------------------------ *)
Factories == {"from_password", "from_device_code", "from_refresh_token"}
\* what the exchange of a factory (or the request of get_device_code) can end in
AuthResponse(k, s, at, rt) == [kind |-> k, status |-> s, access_token |-> at, refresh_token |-> rt]
NoAuthResponse == AuthResponse("none", 0, Absent, Absent)
AuthResponses ==
    {AuthResponse("neterr", 0, Absent, Absent)}
      \cup { AuthResponse("status", s, Absent, Absent) : s \in ErrorStatuses }
      \cup {AuthResponse("invalid", 200, Absent, Absent)}
      \cup {AuthResponse("array", 200, Absent, Absent)}
      \cup { AuthResponse("object", 200, at, rt) : at \in {Absent, "A"}, rt \in {Absent, "R2"} }
\* the credential a factory is called with
Credentials(factory) ==
    CASE factory = "from_password" -> {"user:password"}
      [] factory = "from_device_code" -> {"D", "D2"}
      [] factory = "from_refresh_token" -> {"R", "R3"}

\* (variant: the APIError of the exchange is not wrapped)
AuthCallableRaises_noWrap(o) == MakeHttpRequestRaises(o)
\* auth_callable: _make_http_request, and except APIError -> AuthenticationError
AuthCallableRaises(o) ==
    IF MakeHttpRequestRaises(o).type = "APIError"
    THEN Exc("AuthenticationError", "Authentication failed", o.status)
    ELSE MakeHttpRequestRaises(o)

\* (variant: no factory passes extra fields)
TokenExtras_none(factory, cred) == [n \in {} |-> cred]
\* token_callable: the extra keyword arguments for Token(...)
TokenExtras(factory, cred) ==
    CASE factory = "from_password" -> [n \in {} |-> cred]
      [] factory = "from_device_code" -> [n \in {"device_code"} |-> cred]
      [] factory = "from_refresh_token" -> [n \in {"refresh_token"} |-> cred]

\* Token(access_token=response_data["access_token"],
\*       refresh_token=response_data.get("refresh_token"), **token_extras)
TokenRaises(o, extras) ==
    IF o.kind # "object" THEN Exc("TypeError", "list indices must be integers", 0)
    ELSE IF o.access_token = Absent THEN Exc("KeyError", "access_token", 0)
    ELSE IF "refresh_token" \in DOMAIN extras
         THEN Exc("TypeError", "multiple values for keyword argument 'refresh_token'", 0)
    ELSE NoExc
TokenBuilt(o, extras) ==
    Token(o.access_token,
          IF o.refresh_token = Absent THEN None ELSE o.refresh_token,
          IF "device_code" \in DOMAIN extras THEN extras["device_code"] ELSE None)

\* Seedr.__init__: _manages_client_lifecycle is False iff an httpx_client is given
ManagesLifecycle(given) == ~given

\* a finished public operation: its name and arguments, and how it ended
Op(name, own, cred, resp, state, exc, tok, manages) ==
    [name |-> name, own |-> own, cred |-> cred, resp |-> resp,
     state |-> state, exc |-> exc, tok |-> tok, manages |-> manages]
NoToken == Token(None, None, None)
NoOp == Op("none", FALSE, None, NoAuthResponse, "none", NoExc, NoToken, FALSE)

(* ------------------------------------------------------------------ *)
(* add_torrent with a torrent_file, in Seedr and in AsyncSeedr          *)
(* ------------------------------------------------------------------ *)
Impls == {"Seedr", "AsyncSeedr"}
\* the torrent_file argument: not given, a local path that can be read, a
\* local path that cannot, or an http(s) URL
TorrentSources == {"none", "local", "local_missing", "remote"}
\* how fetching the URL ends
Fetch(k, s) == [kind |-> k, status |-> s]
NoFetch == Fetch("none", 0)
FetchOutcomes ==
    {Fetch("ok", 200), Fetch("neterr", 0)} \cup { Fetch("status", s) : s \in ErrorStatuses }
\* what reading the torrent file gives: an exception, or the content to
\* upload, and the number of requests made for it
Read(raises, files, fetches) == [raises |-> raises, files |-> files, fetches |-> fetches]
\* Seedr._read_torrent_file / AsyncSeedr._read_torrent_file_async
ReadTorrentFile(impl, source, fetch) ==
    CASE source = "none" -> Read(NoExc, "no_files", 0)
      [] source = "local" -> Read(NoExc, "file_content", 0)
      [] source = "local_missing" ->
            Read(Exc("FileNotFoundError", "No such file or directory", 0), "no_files", 0)
      [] source = "remote" /\ fetch.kind = "neterr" ->
            Read(Exc("httpx.ConnectError", "request error", 0), "no_files", 1)
      [] source = "remote" /\ fetch.kind = "status" ->
            IF impl = "AsyncSeedr"
            THEN \* response.raise_for_status()
                 Read(Exc("httpx.HTTPStatusError", "error status", fetch.status), "no_files", 1)
            ELSE \* httpx.get(torrent_file).content, whatever the status
                 Read(NoExc, "error_page", 1)
      [] OTHER -> Read(NoExc, "fetched_content", 1)
\* one add_torrent call: the requests it made and how it ended
Run(fetches, posted, state, exc) ==
    [fetches |-> fetches, posted |-> posted, state |-> state, exc |-> exc]
NoRun == Run(0, "nothing", "none", NoExc)
\* add_torrent: read the file, then _api_request("post", "add_torrent", files=files),
\* for a response `o` that is not the expiry signal
AddTorrentRun(impl, source, fetch, o) ==
    LET rd == ReadTorrentFile(impl, source, fetch)
        exc == IF MakeHttpRequestRaises(o) # NoExc
               THEN ExceptAPIError(MakeHttpRequestRaises(o))
               ELSE ResultCheckRaises(o)
    IN IF rd.raises # NoExc THEN Run(rd.fetches, "nothing", "raised", rd.raises)
       ELSE Run(rd.fetches, rd.files, IF exc # NoExc THEN "raised" ELSE "returned", exc)

(* ------------------------------------------------------------------ *)
(* Request bodies with an embedded array (src/seedrcc/_utils.py)        *)
(* ------------------------------------------------------------------ *)
\* greatest item id that is tried
MaxItemId == 42
\* an item id given as a Python int
IdInt(n) == [t |-> "int", s |-> <<>>, n |-> n]
\* an item id given as a Python str
IdStr(s) == [t |-> "str", s |-> s, n |-> 0]
\* str(n) for an int n >= 0
RECURSIVE Decimal(_)
Decimal(n) == IF n < 10 THEN <<48 + n>> ELSE Decimal(n \div 10) \o <<48 + (n % 10)>>
\* a replacement field of an f-string with no format spec: format(v, "")
FormatField(v) == IF v.t = "int" THEN Decimal(v.n) ELSE v.s
\* the item types of the delete methods, as text
TypeFile == <<102, 105, 108, 101>>
TypeFolder == <<102, 111, 108, 100, 101, 114>>
TypeTorrent == <<116, 111, 114, 114, 101, 110, 116>>
\* (variant: the array is produced by json.dumps, with its ", " and ": " separators)
PrepareDeleteItemPayload_dumps(item_type, item_id) ==
    [delete_arr |-> <<91, 123, 34, 116, 121, 112, 101, 34, 58, 32, 34>> \o FormatField(item_type)
                      \o <<34, 44, 32, 34, 105, 100, 34, 58, 32>> \o FormatField(item_id)
                      \o <<125, 93>>]
\* prepare_delete_item_payload: f'[{{"type":"{item_type}","id":{item_id}}}]'
PrepareDeleteItemPayload(item_type, item_id) ==
    [delete_arr |-> <<91, 123, 34, 116, 121, 112, 101, 34, 58, 34>> \o FormatField(item_type)
                      \o <<34, 44, 34, 105, 100, 34, 58>> \o FormatField(item_id)
                      \o <<125, 93>>]
\* prepare_create_archive_payload: f'[{{"type":"folder","id":{folder_id}}}]'
PrepareCreateArchivePayload(folder_id) ==
    [archive_arr |-> <<91, 123, 34, 116, 121, 112, 101, 34, 58, 34, 102, 111, 108, 100, 101, 114,
                       34, 44, 34, 105, 100, 34, 58>> \o FormatField(folder_id) \o <<125, 93>>]
\* the request an endpoint method hands to _api_request
Sent(method, http_method, func, id, data) ==
    [method |-> method, http_method |-> http_method, func |-> func, id |-> id, data |-> data]
NothingSent == Sent("none", "none", "", IdInt(0), [n \in {} |-> <<>>])

(* ------------------------------------------------------------------ *)
(* The torrent_file argument of add_torrent                             *)
(* ------------------------------------------------------------------ *)
\* "http://" and "https://"
HttpPrefix == <<104, 116, 116, 112, 58, 47, 47>>
HttpsPrefix == <<104, 116, 116, 112, 115, 58, 47, 47>>
\* (variant: only http:// marks a remote file)
IsRemote_httpOnly(torrent_file) == HasWord(torrent_file, 1, HttpPrefix)
\* torrent_file.startswith(("http://", "https://"))
IsRemote(torrent_file) ==
    HasWord(torrent_file, 1, HttpPrefix) \/ HasWord(torrent_file, 1, HttpsPrefix)
\* values passed as torrent_file: None, "", "http://h", "https://h", "HTTP://h",
\* "http:/h", "ftp://h", "/f", "f", "http", " http://h"
TorrentFileArgs ==
    {PyNone, PyStr(<<>>),
     PyStr(HttpPrefix \o <<104>>), PyStr(HttpsPrefix \o <<104>>),
     PyStr(<<72, 84, 84, 80, 58, 47, 47, 104>>), PyStr(<<104, 116, 116, 112, 58, 47, 104>>),
     PyStr(<<102, 116, 112, 58, 47, 47, 104>>), PyStr(<<47, 102>>), PyStr(<<102>>),
     PyStr(<<104, 116, 116, 112>>), PyStr(<<32>> \o HttpPrefix \o <<104>>)}
\* `if torrent_file:`
IsGiven(torrent_file) == torrent_file # PyNone /\ torrent_file.s # <<>>
\* the files argument of _api_request made from what was read
FilesDict(rd) == IF rd.files = "no_files" THEN [n \in {} |-> ""] ELSE [n \in {"torrent_file"} |-> rd.files]
\* one add_torrent call: where it stands, what reading gave and what it did so far
Upload(impl, arg, pc, files, log, exc) ==
    [impl |-> impl, arg |-> arg, pc |-> pc, files |-> files, log |-> log, exc |-> exc]
NoUpload == Upload("none", PyNone, "none", [n \in {} |-> ""], <<>>, NoExc)
\* what add_torrent does that can be seen from outside
Fetched(url) == [ev |-> "fetch", target |-> url, parts |-> {}]
Opened(path) == [ev |-> "open", target |-> path, parts |-> {}]
Posted(func, files) == [ev |-> "request", target |-> func, parts |-> DOMAIN files]

(* ------------------------------------------------------------------ *)
(* Token objects and the references to them                             *)
(* ------------------------------------------------------------------ *)
\* number of successful refreshes that are followed
MaxRefreshes == 2
\* the modules that implement a client
ClientModules == {"client", "async_client", "seedr"}
\* the Token objects after a successful refresh that returned access token n:
\* client.py and async_client.py construct a Token, seedr.py assigns to the
\* access_token of the one it holds
RefreshedObjects(module, objs, ref, n) ==
    IF module = "seedr"
    THEN [objs EXCEPT ![ref].access_token = n]
    ELSE Append(objs, Token(n, objs[ref].refresh_token, objs[ref].device_code))
\* the object self._token refers to after that refresh
RefreshedRef(module, objs, ref) == IF module = "seedr" THEN ref ELSE Len(objs) + 1

(* ------------------------------------------------------------------ *)
(* Several calls at once on one client                                  *)
(* ------------------------------------------------------------------ *)
\* number of calls that run at the same time
NumCallers == 2
Callers == 1..NumCallers
\* one running _api_request: where it stands, the access token its first
\* request carried, the access token the exchange returned to it, the Token it
\* read as the callback's argument, and the access token its retry carried
Caller(pc, sent, new, arg, retried) ==
    [pc |-> pc, sent |-> sent, new |-> new, arg |-> arg, retried |-> retried]
\* the access tokens of this part are numbers: 0 is the one the client starts
\* with, and the k-th successful exchange returns k
IdleCaller == Caller("idle", 0, 0, Token(0, "R", None), 0)
\* (variant: the retry re-sends the params of the first request unchanged)
RetryParam_unchanged(c, tok) == c.sent
\* line 653: params["access_token"] = self._token.access_token
RetryParam(c, tok) == tok.access_token

(* ------------------------------------------------------------------ *)
(* State                                                               *)
(* ------------------------------------------------------------------ *)
VARIABLES
    token,            \* BaseClient._token
    on_token_refresh, \* TRUE iff BaseClient._on_token_refresh is not None
    stack,            \* live _api_request invocations, outermost first
    outcome,          \* how the current endpoint call stands: running, returned or raised
    calls,            \* endpoint calls started so far
    events,           \* history of the current call: requests, Token installs, callbacks
    token0,           \* history: the Token when the current call started
    expired,          \* history: the first response of the current call was the expiry signal
    lastResp,         \* history: the most recent transport outcome, with its level and attempt
    tk,               \* the Token whose encoded forms are examined
    form,             \* which form `wire` holds: none, dict, json, base64, repr or str
    wire,             \* the encoded form: a dict or a str
    damage,           \* how `wire` was made malformed after it was produced, or "none"
    res,              \* what reading `wire` back gave: a Token or an exception
    op,               \* the public operation that made the client, and how it ended
    libClient,        \* the httpx client the library made: none, open or closed
    ownClient,        \* the httpx client the caller passed: none, open or closed
    closeCalled,      \* whether close() was called or the with block was left
    runs,             \* one add_torrent call as made on a Seedr and on an AsyncSeedr
    sent,             \* the request a delete method or create_archive hands to _api_request
    upload,           \* one add_torrent call: its argument, its position and what it did
    clientModule,     \* the module whose client is used: client, async_client or seedr
    objects,          \* the Token objects made so far, in the order they were made
    self_token,       \* the object self._token refers to (an index of objects)
    kept,             \* the object the caller got from client.token (0: none yet)
    keptValue,        \* history: the fields of that object when the caller got it
    returned,         \* history: the access tokens the successful exchanges returned
    concImpl,         \* Seedr: the calls are threads; AsyncSeedr: they are tasks
    callers,          \* the concurrent _api_request invocations
    held,             \* self._token, shared by the callers
    issued,           \* number of access tokens the token endpoint has handed out
    delivered         \* the Tokens the callback received, in the order it ran

engineVars == <<token, on_token_refresh, stack, outcome, calls, events, token0, expired, lastResp>>
tokenVars == <<tk, form, wire, damage, res>>
factoryVars == <<op, libClient, ownClient, closeCalled>>
parityVars == <<runs>>
payloadVars == <<sent>>
uploadVars == <<upload>>
heapVars == <<clientModule, objects, self_token, kept, keptValue, returned>>
concVars == <<concImpl, callers, held, issued, delivered>>
vars == <<engineVars, tokenVars, factoryVars, parityVars, payloadVars, uploadVars, heapVars, concVars>>
\* the variables each of the state machines leaves alone
outsideEngine == <<tokenVars, factoryVars, parityVars, payloadVars, uploadVars, heapVars, concVars>>
outsideToken == <<engineVars, factoryVars, parityVars, payloadVars, uploadVars, heapVars, concVars>>
outsideFactory == <<engineVars, tokenVars, parityVars, payloadVars, uploadVars, heapVars, concVars>>
outsideParity == <<engineVars, tokenVars, factoryVars, payloadVars, uploadVars, heapVars, concVars>>
outsidePayload == <<engineVars, tokenVars, factoryVars, parityVars, uploadVars, heapVars, concVars>>
outsideUpload == <<engineVars, tokenVars, factoryVars, parityVars, payloadVars, heapVars, concVars>>
outsideHeap == <<engineVars, tokenVars, factoryVars, parityVars, payloadVars, uploadVars, concVars>>
outsideConc == <<engineVars, tokenVars, factoryVars, parityVars, payloadVars, uploadVars, heapVars>>

\* history: a transport outcome that is a JSON object whose error field is "expired_token"
ReportsExpiry(o) == o.kind = "object" /\ o.error = "expired_token"

\* one _api_request invocation
Frame(url, at, func, grant, cred) ==
    [url |-> url, access_token |-> at, func |-> func, grant |-> grant, cred |-> cred,
     pc |-> "request", data |-> NoOutcome]

\* the activation of the public refresh_token(), which sends nothing itself
PublicRefresh == "refresh_token()"
IsPublicRefresh(f) == f.url = PublicRefresh

Depth == Len(stack)
Top == stack[Depth]
SetTop(f) == [stack EXCEPT ![Depth] = f]

\* history records
Event(ev, f, attempt, tok, raised) ==
    [ev |-> ev, lvl |-> Depth, attempt |-> attempt, url |-> f.url, func |-> f.func,
     access_token |-> f.access_token, grant |-> f.grant, cred |-> f.cred,
     rest |-> f.data.rest, tok |-> tok, raised |-> raised]
Resp(lvl, attempt, o) == [lvl |-> lvl, attempt |-> attempt, o |-> o]

\* (variant: the device code is preferred over the refresh token)
RefreshGrant_deviceFirst(tok) ==
    IF Truthy(tok.device_code) THEN "device_code"
    ELSE IF Truthy(tok.refresh_token) THEN "refresh_token"
    ELSE "none"
\* (variant: no final else, the refresh-token exchange is the fallback)
RefreshGrant_noElse(tok) ==
    IF ~Truthy(tok.refresh_token) /\ Truthy(tok.device_code) THEN "device_code"
    ELSE "refresh_token"
\* _refresh_access_token: the grant chosen from the held Token
RefreshGrant(tok) ==
    IF Truthy(tok.refresh_token) THEN "refresh_token"
    ELSE IF Truthy(tok.device_code) THEN "device_code"
    ELSE "none"

\* (variant: any JSON object is taken for a token response)
HasAccessToken_anyObject(d) == IsDict(d)
\* "access_token" in response
HasAccessToken(d) == IsDict(d) /\ d.access_token # Absent

\* (variant: the held Token is kept)
InstalledToken_kept(d) == token
\* the Token built from the exchange's response and the held Token's other fields
InstalledToken(d) == Token(d.access_token, token.refresh_token, token.device_code)

\* (variant: the retry re-sends the access token of the first attempt)
RetryAccessToken_stale == Top.access_token
\* the access token the retry carries: read from the held Token after the refresh
RetryAccessToken == token.access_token

\* (variant: the access token is read from the Token the previous call started with)
ParamsAccessToken_previous == token0.access_token
\* the access token put into params when the call is set up: read from the held Token
ParamsAccessToken == token.access_token

Idle == [state |-> "idle", data |-> NoOutcome, exc |-> NoExc]
Running == [state |-> "running", data |-> NoOutcome, exc |-> NoExc]
Returned(d) == [state |-> "returned", data |-> d, exc |-> NoExc]
Raised(e) == [state |-> "raised", data |-> NoOutcome, exc |-> e]

\* no Token is being serialized
TokenCaseIdle ==
    /\ tk = Token(PyNone, PyNone, PyNone)
    /\ form = "none"
    /\ wire = PyNone
    /\ damage = "none"
    /\ res = NotCalled

\* no client is being made
FactoryIdle ==
    /\ op = NoOp
    /\ libClient = "none"
    /\ ownClient = "none"
    /\ closeCalled = "no"
\* add_torrent has not been called
ParityIdle ==
    runs = [source |-> "not_called", fetch |-> NoFetch, resp |-> NoOutcome,
            sync |-> NoRun, async |-> NoRun]
\* no delete method has been called
PayloadIdle == sent = NothingSent
\* add_torrent is not running
UploadIdle == upload = NoUpload
\* no refresh is followed on the level of objects
HeapIdle ==
    /\ clientModule = "client"
    /\ objects = <<Token("OLD", None, None)>>
    /\ self_token = 1
    /\ kept = 0
    /\ keptValue = NoToken
    /\ returned = <<>>
\* no concurrent calls are made
ConcIdle ==
    /\ concImpl = "Seedr"
    /\ callers = [t \in Callers |-> IdleCaller]
    /\ held = Token(0, "R", None)
    /\ issued = 0
    /\ delivered = <<>>
Init ==
    /\ token \in { Token("OLD", rt, dc) : rt \in RefreshTokenValues, dc \in DeviceCodeValues }
    /\ on_token_refresh \in BOOLEAN
    /\ stack = <<>>
    /\ outcome = Idle
    /\ calls = 0
    /\ events = <<>>
    /\ token0 = token
    /\ expired = FALSE
    /\ lastResp = Resp(0, 0, NoOutcome)
    /\ TokenCaseIdle
    /\ FactoryIdle
    /\ ParityIdle
    /\ PayloadIdle
    /\ UploadIdle
    /\ HeapIdle
    /\ ConcIdle

\* a client on which no endpoint call is made
EngineIdle ==
    /\ token = Token("OLD", None, None)
    /\ on_token_refresh = FALSE
    /\ stack = <<>>
    /\ outcome = Idle
    /\ calls = 0
    /\ events = <<>>
    /\ token0 = token
    /\ expired = FALSE
    /\ lastResp = Resp(0, 0, NoOutcome)

(* ------------------------------------------------------------------ *)
(* How an _api_request invocation ends                                 *)
(* ------------------------------------------------------------------ *)
\* an exception leaves the top frame: every enclosing _api_request runs its
\* except clause, _refresh_access_token has none, and the endpoint call fails
Raise(e) ==
    /\ stack' = <<>>
    /\ outcome' = Raised(ExceptAPIError(e))

\* the top frame returns `d`: to the endpoint method, or to the
\* _refresh_access_token of the enclosing frame
Return(d) ==
    IF Depth = 1
    THEN /\ stack' = <<>>
         /\ outcome' = Returned(d)
    ELSE /\ stack' = [SubSeq(stack, 1, Depth - 1) EXCEPT ![Depth - 1].pc = "install",
                                                         ![Depth - 1].data = d]
         /\ UNCHANGED outcome

\* models.RefreshTokenResult built from the exchange's response
RefreshTokenResult(d) == [model |-> "RefreshTokenResult", access_token |-> d.access_token, raw |-> d]

\* the last line of _refresh_access_token: the result is built from the response and
\* returned, to _api_request (which goes on to the retry) or to the caller of refresh_token()
ReturnRefreshResult ==
    IF RefreshTokenResultRaises(Top.data) # NoExc
    THEN Raise(RefreshTokenResultRaises(Top.data))
    ELSE IF IsPublicRefresh(Top)
         THEN Return(RefreshTokenResult(Top.data))
         ELSE /\ stack' = SetTop([Top EXCEPT !.pc = "retry"])
              /\ UNCHANGED outcome

\* (variant: a response that still reports expiry starts another refresh)
CheckResultAndReturn_refreshAgain(d) ==
    IF IsExpired(d)
    THEN /\ stack' = SetTop([Top EXCEPT !.pc = "refresh"])
         /\ UNCHANGED outcome
    ELSE IF ResultCheckRaises(d) # NoExc
         THEN Raise(ResultCheckRaises(d))
         ELSE Return(d)
\* lines 655-658: the result check, then return
CheckResultAndReturn(d) ==
    IF ResultCheckRaises(d) # NoExc
    THEN Raise(ResultCheckRaises(d))
    ELSE Return(d)

(* ------------------------------------------------------------------ *)
(* Actions                                                             *)
(* ------------------------------------------------------------------ *)
\* an endpoint method calls _api_request(method, func): url and params are set up
ApiRequest(f) ==
    /\ stack = <<>>
    /\ calls < MaxCalls
    /\ calls' = calls + 1
    /\ stack' = <<Frame(RESOURCE_URL, ParamsAccessToken, f, "none", None)>>
    /\ outcome' = Running
    /\ events' = <<>>
    /\ token0' = token
    /\ expired' = FALSE
    /\ lastResp' = Resp(0, 0, NoOutcome)
    /\ UNCHANGED <<token, on_token_refresh>>
    /\ UNCHANGED outsideEngine

\* the first _make_http_request of the top frame and what _api_request does with its outcome
FirstAttempt(o) ==
    /\ Depth >= 1
    /\ Top.pc = "request"
    /\ lastResp' = Resp(Depth, 1, o)
    /\ o \in Outcomes(Top.url)
    \* the nesting explored is bounded: the innermost exchange is not answered with expired_token
    /\ (Depth = MaxDepth => ~IsExpired(o))
    /\ events' = Append(events, Event("request", Top, 1, token, FALSE))
    /\ expired' = IF Depth = 1 THEN ReportsExpiry(o) ELSE expired
    /\ IF MakeHttpRequestRaises(o) # NoExc
       THEN Raise(MakeHttpRequestRaises(o))
       ELSE IF IsExpired(o)
            THEN /\ stack' = SetTop([Top EXCEPT !.pc = "refresh"])
                 /\ UNCHANGED outcome
            ELSE CheckResultAndReturn(o)
    /\ UNCHANGED <<token, on_token_refresh, calls, token0>>
    /\ UNCHANGED outsideEngine

\* _refresh_access_token, up to the exchange it starts
RefreshAccessToken ==
    /\ Depth >= 1
    /\ Top.pc = "refresh"
    /\ IF RefreshGrant(token) = "refresh_token"
       THEN /\ stack' = Append(SetTop([Top EXCEPT !.pc = "exchange"]),
                               Frame(TOKEN_URL, token.access_token, "", "refresh_token",
                                     token.refresh_token))
            /\ UNCHANGED outcome
       ELSE IF RefreshGrant(token) = "device_code"
            THEN /\ stack' = Append(SetTop([Top EXCEPT !.pc = "exchange"]),
                                    Frame(DEVICE_AUTHORIZE_URL, token.access_token, "",
                                          "device_code", token.device_code))
                 /\ UNCHANGED outcome
            ELSE Raise(Exc("AuthenticationError",
                           "Session expired. No refresh token or device code available.", 0))
    /\ UNCHANGED <<token, on_token_refresh, calls, events, token0, expired, lastResp>>
    /\ UNCHANGED outsideEngine

\* _refresh_access_token after the exchange returned: the access_token check, the new
\* Token and, when no callback is set, the result
InstallToken ==
    /\ Depth >= 1
    /\ Top.pc = "install"
    /\ IF ~HasAccessToken(Top.data)
       THEN /\ Raise(Exc("AuthenticationError",
                         "Token refresh failed. The response did not contain a new access token.", 0))
            /\ UNCHANGED <<token, events>>
       ELSE /\ token' = InstalledToken(Top.data)
            /\ events' = Append(events,
                                Event("install", [Top EXCEPT !.access_token = Top.data.access_token],
                                      0, token', FALSE))
            /\ IF on_token_refresh
               THEN /\ stack' = SetTop([Top EXCEPT !.pc = "callback"])
                    /\ UNCHANGED outcome
               ELSE ReturnRefreshResult
    /\ UNCHANGED <<on_token_refresh, calls, token0, expired, lastResp>>
    /\ UNCHANGED outsideEngine

\* _refresh_access_token calls the user's callback with the installed Token; the callback
\* may raise; after it the result is built
OnTokenRefresh(raises) ==
    /\ Depth >= 1
    /\ Top.pc = "callback"
    /\ events' = Append(events, Event("callback", Top, 0, token, raises))
    /\ IF raises
       THEN Raise(Exc("CallbackError", "raised by on_token_refresh", 0))
       ELSE ReturnRefreshResult
    /\ UNCHANGED <<token, on_token_refresh, calls, token0, expired, lastResp>>
    /\ UNCHANGED outsideEngine

\* back in _api_request: the access token is read again and the same request is sent once more
Retry(o) ==
    /\ Depth >= 1
    /\ Top.pc = "retry"
    /\ lastResp' = Resp(Depth, 2, o)
    /\ o \in Outcomes(Top.url)
    /\ events' = Append(events,
                        Event("request", [Top EXCEPT !.access_token = RetryAccessToken],
                              2, token, FALSE))
    /\ IF MakeHttpRequestRaises(o) # NoExc
       THEN Raise(MakeHttpRequestRaises(o))
       ELSE CheckResultAndReturn(o)
    /\ UNCHANGED <<token, on_token_refresh, calls, token0, expired>>
    /\ UNCHANGED outsideEngine

Next ==
    \/ \E f \in Funcs : ApiRequest(f)
    \/ \E o \in AnyOutcome : FirstAttempt(o)
    \/ RefreshAccessToken
    \/ InstallToken
    \/ \E raises \in BOOLEAN : OnTokenRefresh(raises)
    \/ \E o \in AnyOutcome : Retry(o)

Spec == Init /\ [][Next]_vars

\* the steps of a call that is under way: the transport answers every request
\* (httpx times out after 30 s by default) and the callback comes back
EngineStep ==
    \/ \E o \in AnyOutcome : FirstAttempt(o)
    \/ RefreshAccessToken
    \/ InstallToken
    \/ \E raises \in BOOLEAN : OnTokenRefresh(raises)
    \/ \E o \in AnyOutcome : Retry(o)

\* the public refresh_token(): _refresh_access_token is run by the caller itself
RefreshToken ==
    /\ stack = <<>>
    /\ calls < MaxCalls
    /\ calls' = calls + 1
    /\ stack' = <<[Frame(PublicRefresh, token.access_token, "", "none", None) EXCEPT !.pc = "refresh"]>>
    /\ outcome' = Running
    /\ events' = <<>>
    /\ token0' = token
    /\ expired' = FALSE
    /\ lastResp' = Resp(0, 0, NoOutcome)
    /\ UNCHANGED <<token, on_token_refresh>>
    /\ UNCHANGED outsideEngine

RefreshNext ==
    \/ RefreshToken
    \/ \E o \in AnyOutcome : FirstAttempt(o)
    \/ RefreshAccessToken
    \/ InstallToken
    \/ \E raises \in BOOLEAN : OnTokenRefresh(raises)
    \/ \E o \in AnyOutcome : Retry(o)

\* refresh_token() called up to MaxCalls times on every initial client
RefreshSpec == Init /\ [][RefreshNext]_vars

\* one endpoint call on every initial client
OneCallNext == Next /\ calls' <= 1

\* one call that, once under way, goes on
LiveSpec == Init /\ [][OneCallNext]_vars /\ WF_vars(EngineStep)

(* ------------------------------------------------------------------ *)
(* Serializing and deserializing a Token                               *)
(* ------------------------------------------------------------------ *)
\* the strings a field takes: every string over Alphabet up to MaxFieldLen,
\* and two secrets longer than the mask that agree on its prefix
Alphabet == {97, 34, 92, 233}
Strings == UNION { [1..n -> Alphabet] : n \in 0..MaxFieldLen }
LongSecrets == { <<97, 98, 99, 100, 101, 120>>, <<97, 98, 99, 100, 101, 121>> }
SampleTokens ==
    { Token(PyStr(a), r, d) :
        a \in Strings \cup LongSecrets,
        r \in {PyNone, PyStr(<<>>), PyStr(<<92, 233>>)},
        d \in {PyNone, PyStr(<<>>), PyStr(<<97, 98, 99, 100, 101, 120>>)} }

\* malformed input made from the encoded form of T
NotAccessToken(p) == p[1] # KeyAccessToken
DictDamages == {"unknown_key", "no_access_token", "not_an_object"}
DamagedDict(T, k) ==
    CASE k = "unknown_key" -> PyDict(Append(ToDict(T).pairs, <<<<120>>, PyStr(<<97>>)>>))
      [] k = "no_access_token" -> PyDict(SelectSeq(ToDict(T).pairs, NotAccessToken))
      [] OTHER -> PyList(<<>>)
JsonDamages == DictDamages \cup {"invalid_json_cut", "invalid_json_junk"}
DamagedJson(T, k) ==
    CASE k \in {"unknown_key", "no_access_token"} -> JsonDumps(DamagedDict(T, k))
      [] k = "not_an_object" -> <<91, 93>>
      [] k = "invalid_json_cut" -> SubSeq(ToJson(T), 1, Len(ToJson(T)) - 1)
      [] OTHER -> ToJson(T) \o <<33>>
Base64Damages == JsonDamages \cup {"invalid_utf8", "invalid_base64_cut", "invalid_base64_junk"}
DamagedBase64(T, k) ==
    CASE k \in JsonDamages -> B64Encode(Utf8Encode(DamagedJson(T, k)))
      [] k = "invalid_utf8" -> B64Encode(Utf8Encode(ToJson(T)) \o <<255>>)
      [] k = "invalid_base64_cut" -> SubSeq(ToBase64(T), 1, Len(ToBase64(T)) - 1)
      [] OTHER -> ToBase64(T) \o <<33>>

TokenInit ==
    /\ tk \in SampleTokens
    /\ form = "none"
    /\ wire = PyNone
    /\ damage = "none"
    /\ res = NotCalled
    /\ EngineIdle
    /\ FactoryIdle
    /\ ParityIdle
    /\ PayloadIdle
    /\ UploadIdle
    /\ HeapIdle
    /\ ConcIdle

\* Token.to_dict()
ToDictCall ==
    /\ form = "none"
    /\ form' = "dict"
    /\ wire' = ToDict(tk)
    /\ UNCHANGED <<tk, damage, res, outsideToken>>

\* Token.to_json()
ToJsonCall ==
    /\ form = "none"
    /\ form' = "json"
    /\ wire' = PyStr(ToJson(tk))
    /\ UNCHANGED <<tk, damage, res, outsideToken>>

\* Token.to_base64()
ToBase64Call ==
    /\ form = "none"
    /\ form' = "base64"
    /\ wire' = PyStr(ToBase64(tk))
    /\ UNCHANGED <<tk, damage, res, outsideToken>>

\* repr(token)
ReprCall ==
    /\ form = "none"
    /\ form' = "repr"
    /\ wire' = PyStr(Repr(tk))
    /\ UNCHANGED <<tk, damage, res, outsideToken>>

\* str(token)
StrCall ==
    /\ form = "none"
    /\ form' = "str"
    /\ wire' = PyStr(Str(tk))
    /\ UNCHANGED <<tk, damage, res, outsideToken>>

\* the encoded form is replaced by a malformed one before it is read back
Tamper(k) ==
    /\ damage = "none" /\ res = NotCalled
    /\ \/ form = "dict" /\ k \in DictDamages /\ wire' = DamagedDict(tk, k)
       \/ form = "json" /\ k \in JsonDamages /\ wire' = PyStr(DamagedJson(tk, k))
       \/ form = "base64" /\ k \in Base64Damages /\ wire' = PyStr(DamagedBase64(tk, k))
    /\ damage' = k
    /\ UNCHANGED <<tk, form, res, outsideToken>>

\* Token.from_dict(wire)
FromDictCall ==
    /\ form = "dict" /\ res = NotCalled
    /\ res' = CalledOn("token", FromDict(wire))
    /\ UNCHANGED <<tk, form, wire, damage, outsideToken>>

\* Token.from_json(wire)
FromJsonCall ==
    /\ form = "json" /\ res = NotCalled
    /\ res' = CalledOn("token", FromJson(wire.s))
    /\ UNCHANGED <<tk, form, wire, damage, outsideToken>>

\* Token.from_base64(wire)
FromBase64Call ==
    /\ form = "base64" /\ res = NotCalled
    /\ res' = CalledOn("token", FromBase64(wire.s))
    /\ UNCHANGED <<tk, form, wire, damage, outsideToken>>

\* the Token of _token.py: from_dict and from_json catch nothing
LegacyFromDictCall ==
    /\ form = "dict" /\ res = NotCalled
    /\ res' = CalledOn("_token", LegacyFromDict(wire))
    /\ UNCHANGED <<tk, form, wire, damage, outsideToken>>

LegacyFromJsonCall ==
    /\ form = "json" /\ res = NotCalled
    /\ res' = CalledOn("_token", LegacyFromJson(wire.s))
    /\ UNCHANGED <<tk, form, wire, damage, outsideToken>>

TokenNext ==
    \/ ToDictCall
    \/ ToJsonCall
    \/ ToBase64Call
    \/ ReprCall
    \/ StrCall
    \/ \E k \in Base64Damages : Tamper(k)
    \/ FromDictCall
    \/ FromJsonCall
    \/ FromBase64Call
    \/ LegacyFromDictCall
    \/ LegacyFromJsonCall

TokenSpec == TokenInit /\ [][TokenNext]_vars

(* ------------------------------------------------------------------ *)
(* Making and closing a client                                         *)
(* ------------------------------------------------------------------ *)
FactoryInit ==
    /\ FactoryIdle
    /\ EngineIdle
    /\ TokenCaseIdle
    /\ ParityIdle
    /\ PayloadIdle
    /\ UploadIdle
    /\ HeapIdle
    /\ ConcIdle

\* _initialize_client, for the factory `factory` called with `cred`; `own`
\* tells that the caller passes an httpx client; `o` is how the exchange ends
InitializeClient(factory, cred, own, o) ==
    LET authExc == AuthCallableRaises(o)
        extras == TokenExtras(factory, cred)
        exc == IF authExc # NoExc THEN authExc ELSE TokenRaises(o, extras)
    IN /\ op.state = "none"
       /\ ownClient' = IF own THEN "open" ELSE "none"
       /\ closeCalled' = "no"
       /\ IF exc # NoExc
          THEN \* finally: the client made here is closed
               /\ op' = Op(factory, own, cred, o, "raised", exc, NoToken, FALSE)
               /\ libClient' = IF own THEN "none" ELSE "closed"
          ELSE \* cls(token, httpx_client=client, ...)
               /\ op' = Op(factory, own, cred, o, "returned", NoExc,
                           TokenBuilt(o, extras), ManagesLifecycle(TRUE))
               /\ libClient' = IF own THEN "none" ELSE "open"
       /\ UNCHANGED outsideFactory

FromPassword(cred, own, o) ==
    /\ cred \in Credentials("from_password")
    /\ InitializeClient("from_password", cred, own, o)

FromDeviceCode(cred, own, o) ==
    /\ cred \in Credentials("from_device_code")
    /\ InitializeClient("from_device_code", cred, own, o)

FromRefreshToken(cred, own, o) ==
    /\ cred \in Credentials("from_refresh_token")
    /\ InitializeClient("from_refresh_token", cred, own, o)

\* Seedr(token) or Seedr(token, httpx_client=...)
SeedrInit(own) ==
    /\ op.state = "none"
    /\ op' = Op("Seedr", own, None, NoAuthResponse, "returned", NoExc,
                Token("A", None, None), ManagesLifecycle(own))
    /\ libClient' = IF own THEN "none" ELSE "open"
    /\ ownClient' = IF own THEN "open" ELSE "none"
    /\ closeCalled' = "no"
    /\ UNCHANGED outsideFactory

\* self._client.close(), if the instance manages the client it holds
CloseClient(how) ==
    /\ op.state = "returned" /\ op.name \in Factories \cup {"Seedr"}
    /\ closeCalled = "no"
    /\ closeCalled' = how
    /\ libClient' = IF op.manages /\ ~op.own THEN "closed" ELSE libClient
    /\ ownClient' = IF op.manages /\ op.own THEN "closed" ELSE ownClient
    /\ UNCHANGED <<op, outsideFactory>>

\* client.close()
Close ==
    /\ op.state = "returned"
    /\ CloseClient("close")

\* leaving `with client:`
Exit ==
    /\ op.state = "returned"
    /\ CloseClient("exit")

\* Seedr.get_device_code(): raise_for_status and response.json() unguarded,
\* then DeviceCode.from_dict
DeviceCodeResponses ==
    {AuthResponse("device_codes", 200, Absent, Absent)}
      \cup { o \in AuthResponses : o.kind # "object" \/ o.access_token = Absent }
GetDeviceCodeRaises(o) ==
    CASE o.kind = "neterr" -> Exc("httpx.ConnectError", "request error", 0)
      [] o.kind = "status" -> Exc("httpx.HTTPStatusError", "error status", o.status)
      [] o.kind = "invalid" -> Exc("JSONDecodeError", "invalid json", 0)
      [] o.kind = "array" -> Exc("AttributeError", "'list' object has no attribute 'items'", 0)
      [] o.kind = "object" -> Exc("TypeError", "missing required positional arguments", 0)
      [] OTHER -> NoExc
GetDeviceCode(o) ==
    /\ op.state = "none"
    /\ o \in DeviceCodeResponses
    /\ op' = Op("get_device_code", FALSE, None, o,
                IF GetDeviceCodeRaises(o) # NoExc THEN "raised" ELSE "returned",
                GetDeviceCodeRaises(o), NoToken, FALSE)
    /\ UNCHANGED <<libClient, ownClient, closeCalled, outsideFactory>>

FactoryNext ==
    \/ \E c \in Credentials("from_password"), own \in BOOLEAN, o \in AuthResponses :
           FromPassword(c, own, o)
    \/ \E c \in Credentials("from_device_code"), own \in BOOLEAN, o \in AuthResponses :
           FromDeviceCode(c, own, o)
    \/ \E c \in Credentials("from_refresh_token"), own \in BOOLEAN, o \in AuthResponses :
           FromRefreshToken(c, own, o)
    \/ \E own \in BOOLEAN : SeedrInit(own)
    \/ Close
    \/ Exit
    \/ \E o \in DeviceCodeResponses : GetDeviceCode(o)

FactorySpec == FactoryInit /\ [][FactoryNext]_vars

(* ------------------------------------------------------------------ *)
(* The same add_torrent call on a Seedr and on an AsyncSeedr            *)
(* ------------------------------------------------------------------ *)
ParityInit ==
    /\ ParityIdle
    /\ EngineIdle
    /\ TokenCaseIdle
    /\ FactoryIdle
    /\ PayloadIdle
    /\ UploadIdle
    /\ HeapIdle
    /\ ConcIdle

\* both clients hold the same Token and meet the same transport outcomes
AddTorrent(source, fetch, o) ==
    /\ runs.source = "not_called"
    /\ (source = "remote") = (fetch # NoFetch)
    /\ o \in Outcomes(RESOURCE_URL) /\ ~IsExpired(o)
    /\ runs' = [source |-> source, fetch |-> fetch, resp |-> o,
                sync |-> AddTorrentRun("Seedr", source, fetch, o),
                async |-> AddTorrentRun("AsyncSeedr", source, fetch, o)]
    /\ UNCHANGED outsideParity

ParityNext ==
    \E source \in TorrentSources, fetch \in FetchOutcomes \cup {NoFetch},
       o \in Outcomes(RESOURCE_URL) : AddTorrent(source, fetch, o)

ParitySpec == ParityInit /\ [][ParityNext]_vars

(* ------------------------------------------------------------------ *)
(* The delete methods and create_archive                                *)
(* ------------------------------------------------------------------ *)
\* item ids as callers pass them: ints, and the same numbers as strings
ItemIds == { IdInt(n) : n \in 0..MaxItemId } \cup { IdStr(Decimal(n)) : n \in 0..MaxItemId }

PayloadInit ==
    /\ PayloadIdle
    /\ EngineIdle
    /\ TokenCaseIdle
    /\ FactoryIdle
    /\ ParityIdle
    /\ UploadIdle
    /\ HeapIdle
    /\ ConcIdle

\* _delete_api_item(item_type, item_id), up to its call of _api_request
DeleteApiItem(method, item_type, item_id) ==
    /\ sent = NothingSent
    /\ sent' = Sent(method, "post", "delete", item_id,
                    PrepareDeleteItemPayload(IdStr(item_type), item_id))
    /\ UNCHANGED outsidePayload

DeleteFile(id) ==
    /\ id \in ItemIds
    /\ DeleteApiItem("delete_file", TypeFile, id)

DeleteFolder(id) ==
    /\ id \in ItemIds
    /\ DeleteApiItem("delete_folder", TypeFolder, id)

DeleteTorrent(id) ==
    /\ id \in ItemIds
    /\ DeleteApiItem("delete_torrent", TypeTorrent, id)

\* create_archive(folder_id), up to its call of _api_request
CreateArchive(id) ==
    /\ id \in ItemIds
    /\ sent = NothingSent
    /\ sent' = Sent("create_archive", "post", "create_empty_archive", id,
                    PrepareCreateArchivePayload(id))
    /\ UNCHANGED outsidePayload

PayloadNext ==
    \/ \E id \in ItemIds : DeleteFile(id)
    \/ \E id \in ItemIds : DeleteFolder(id)
    \/ \E id \in ItemIds : DeleteTorrent(id)
    \/ \E id \in ItemIds : CreateArchive(id)

PayloadSpec == PayloadInit /\ [][PayloadNext]_vars

(* ------------------------------------------------------------------ *)
(* add_torrent, step by step                                            *)
(* ------------------------------------------------------------------ *)
UploadInit ==
    /\ UploadIdle
    /\ EngineIdle
    /\ TokenCaseIdle
    /\ FactoryIdle
    /\ ParityIdle
    /\ PayloadIdle
    /\ HeapIdle
    /\ ConcIdle

\* add_torrent(torrent_file=arg): the payload is prepared, files = {}, and
\* the file is read only `if torrent_file:`
AddTorrentCall(impl, arg) ==
    /\ upload.pc = "none"
    /\ upload' = Upload(impl, arg, IF IsGiven(arg) THEN "read" ELSE "post",
                        [n \in {} |-> ""], <<>>, NoExc)
    /\ UNCHANGED outsideUpload

\* _read_torrent_file / _read_torrent_file_async, the branch of a URL
ReadRemote(fetch) ==
    LET rd == ReadTorrentFile(upload.impl, "remote", fetch)
    IN /\ upload.pc = "read"
       /\ IsRemote(upload.arg.s)
       /\ fetch \in FetchOutcomes
       /\ upload' = [upload EXCEPT !.log = Append(@, Fetched(upload.arg.s)),
                                   !.files = FilesDict(rd),
                                   !.exc = rd.raises,
                                   !.pc = IF rd.raises # NoExc THEN "raised" ELSE "post"]
       /\ UNCHANGED outsideUpload

\* _read_torrent_file / _read_torrent_file_async, the branch of a local path
ReadLocal(readable) ==
    LET rd == ReadTorrentFile(upload.impl, IF readable THEN "local" ELSE "local_missing", NoFetch)
    IN /\ upload.pc = "read"
       /\ ~IsRemote(upload.arg.s)
       /\ upload' = [upload EXCEPT !.log = Append(@, Opened(upload.arg.s)),
                                   !.files = FilesDict(rd),
                                   !.exc = rd.raises,
                                   !.pc = IF rd.raises # NoExc THEN "raised" ELSE "post"]
       /\ UNCHANGED outsideUpload

\* _api_request("post", "add_torrent", data=data, files=files), for a
\* response that is not the expiry signal
PostAddTorrent(o) ==
    LET exc == IF MakeHttpRequestRaises(o) # NoExc
               THEN ExceptAPIError(MakeHttpRequestRaises(o))
               ELSE ResultCheckRaises(o)
    IN /\ upload.pc = "post"
       /\ o \in Outcomes(RESOURCE_URL) /\ ~IsExpired(o)
       /\ upload' = [upload EXCEPT !.log = Append(@, Posted("add_torrent", upload.files)),
                                   !.exc = exc,
                                   !.pc = IF exc # NoExc THEN "raised" ELSE "returned"]
       /\ UNCHANGED outsideUpload

UploadNext ==
    \/ \E impl \in Impls, arg \in TorrentFileArgs : AddTorrentCall(impl, arg)
    \/ \E fetch \in FetchOutcomes : ReadRemote(fetch)
    \/ \E readable \in BOOLEAN : ReadLocal(readable)
    \/ \E o \in Outcomes(RESOURCE_URL) : PostAddTorrent(o)

UploadSpec == UploadInit /\ [][UploadNext]_vars

(* ------------------------------------------------------------------ *)
(* Refreshing while the caller holds a reference to the Token           *)
(* ------------------------------------------------------------------ *)
HeapInit ==
    /\ clientModule \in ClientModules
    /\ objects \in { <<Token("OLD", rt, dc)>> : rt \in RefreshTokenValues, dc \in DeviceCodeValues }
    /\ self_token = 1
    /\ kept = 0
    /\ keptValue = NoToken
    /\ returned = <<>>
    /\ EngineIdle
    /\ TokenCaseIdle
    /\ FactoryIdle
    /\ ParityIdle
    /\ PayloadIdle
    /\ UploadIdle
    /\ ConcIdle

\* tok = client.token: the property returns the object self._token refers to
TokenProperty ==
    /\ kept' = self_token
    /\ keptValue' = objects[self_token]
    /\ kept # self_token
    /\ UNCHANGED <<clientModule, objects, self_token, returned, outsideHeap>>

\* the end of a refresh whose exchange returned access token n
SuccessfulRefresh(n) ==
    /\ Len(returned) < MaxRefreshes
    /\ RefreshGrant(objects[self_token]) # "none"
    /\ objects' = RefreshedObjects(clientModule, objects, self_token, n)
    /\ self_token' = RefreshedRef(clientModule, objects, self_token)
    /\ returned' = Append(returned, n)
    /\ UNCHANGED <<clientModule, kept, keptValue, outsideHeap>>

HeapNext ==
    \/ TokenProperty
    \/ \E n \in NewAccessTokens : SuccessfulRefresh(n)

HeapSpec == HeapInit /\ [][HeapNext]_vars

(* ------------------------------------------------------------------ *)
(* Concurrent calls: threads on a Seedr, tasks on an AsyncSeedr         *)
(* ------------------------------------------------------------------ *)
ConcInit ==
    /\ concImpl \in Impls
    /\ callers = [t \in Callers |-> IdleCaller]
    /\ held = Token(0, "R", None)
    /\ issued = 0
    /\ delivered = <<>>
    /\ EngineIdle
    /\ TokenCaseIdle
    /\ FactoryIdle
    /\ ParityIdle
    /\ PayloadIdle
    /\ UploadIdle
    /\ HeapIdle

\* _api_request is entered: params["access_token"] = self._token.access_token
EnterApiRequest(t) ==
    /\ callers[t].pc = "idle"
    /\ callers' = [callers EXCEPT ![t].pc = "request", ![t].sent = held.access_token]
    /\ UNCHANGED <<concImpl, held, issued, delivered, outsideConc>>

\* the first request is answered: with a body, with an error, or with expired_token
FirstResponse(t, answer) ==
    /\ callers[t].pc = "request"
    /\ callers' = [callers EXCEPT ![t].pc = CASE answer = "body" -> "returned"
                                              [] answer = "error" -> "raised"
                                              [] answer = "expired_token" -> "refresh"]
    /\ UNCHANGED <<concImpl, held, issued, delivered, outsideConc>>

\* _refresh_access_token: the exchange, made with the refresh token that is held
RefreshExchange(t, ok) ==
    /\ callers[t].pc = "refresh"
    /\ RefreshGrant(held) # "none"
    /\ IF ok
       THEN /\ issued' = issued + 1
            /\ callers' = [callers EXCEPT ![t].pc = "install", ![t].new = issued + 1]
       ELSE /\ callers' = [callers EXCEPT ![t].pc = "raised"]
            /\ UNCHANGED issued
    /\ UNCHANGED <<concImpl, held, delivered, outsideConc>>

\* self._token = Token(...); a task goes on without a break to read
\* self._token as the argument of to_thread.run_sync, a thread can be
\* interrupted before it reads it
InstallNewToken(t) ==
    /\ callers[t].pc = "install"
    /\ held' = Token(callers[t].new, held.refresh_token, held.device_code)
    /\ callers' = IF concImpl = "AsyncSeedr"
                  THEN [callers EXCEPT ![t].pc = "callback", ![t].arg = held']
                  ELSE [callers EXCEPT ![t].pc = "argument"]
    /\ UNCHANGED <<concImpl, issued, delivered, outsideConc>>

\* a thread evaluates self._token in self._on_token_refresh(self._token)
ReadArgument(t) ==
    /\ callers[t].pc = "argument"
    /\ callers' = [callers EXCEPT ![t].pc = "callback", ![t].arg = held]
    /\ UNCHANGED <<concImpl, held, issued, delivered, outsideConc>>

\* the callback runs (in the calling thread, or in a worker thread for a
\* task) and receives the Token that was read for it
RunCallback(t) ==
    /\ callers[t].pc = "callback"
    /\ delivered' = Append(delivered, callers[t].arg)
    /\ callers' = [callers EXCEPT ![t].pc = "retry"]
    /\ UNCHANGED <<concImpl, held, issued, outsideConc>>

\* the retry is sent with the access token read from self._token, and answered
RetryRequest(t, answer) ==
    /\ callers[t].pc = "retry"
    /\ callers' = [callers EXCEPT ![t].retried = RetryParam(callers[t], held),
                                  ![t].pc = IF answer = "body" THEN "returned" ELSE "raised"]
    /\ UNCHANGED <<concImpl, held, issued, delivered, outsideConc>>

ConcNext ==
    \/ \E t \in Callers : EnterApiRequest(t)
    \/ \E t \in Callers, answer \in {"body", "error", "expired_token"} : FirstResponse(t, answer)
    \/ \E t \in Callers, ok \in BOOLEAN : RefreshExchange(t, ok)
    \/ \E t \in Callers : InstallNewToken(t)
    \/ \E t \in Callers : ReadArgument(t)
    \/ \E t \in Callers : RunCallback(t)
    \/ \E t \in Callers, answer \in {"body", "error"} : RetryRequest(t, answer)

ConcSpec == ConcInit /\ [][ConcNext]_vars

(* ------------------------------------------------------------------ *)
(* Reading the history of the current call                             *)
(* ------------------------------------------------------------------ *)
\* a body that fails the result check: `result` present and not equal to true
ResultFails(o) == o.kind = "object" /\ o.result # Absent /\ o.result # "true"

IsOrigRequest(e) == e.ev = "request" /\ e.lvl = 1
IsExchangeRequest(e) == e.ev = "request" /\ e.lvl >= 2
IsExchange(e) == e.ev = "request" /\ e.lvl >= 2 /\ e.attempt = 1
IsInstall(e) == e.ev = "install"
IsCallback(e) == e.ev = "callback"

\* the requests of the original call, the requests sent to the token / device-authorize
\* endpoint, the refresh exchanges started, the Token replacements and the callback invocations
OrigRequests == SelectSeq(events, IsOrigRequest)
ExchangeRequests == SelectSeq(events, IsExchangeRequest)
Exchanges == SelectSeq(events, IsExchange)
Installs == SelectSeq(events, IsInstall)
Callbacks == SelectSeq(events, IsCallback)

Finished == outcome.state \in {"returned", "raised"}
CallbackRaised == \E i \in 1..Len(events) : events[i].ev = "callback" /\ events[i].raised

\* the first response reported expiry, the refresh exchange was answered at once
\* with a token response (access token n, expires_in, token_type), and the callback
\* (if any) returned normally
RefreshedWith(n) ==
    /\ expired
    /\ Len(ExchangeRequests) = 1
    /\ Len(Installs) = 1
    /\ Installs[1].lvl = 1
    /\ Installs[1].access_token = n
    /\ Installs[1].rest # Absent
    /\ ~CallbackRaised

(* ------------------------------------------------------------------ *)
(* Claims                                                              *)
(* ------------------------------------------------------------------ *)

C2_SecondExpiryIsAuthenticationError ==
    (/\ Finished
     /\ expired
     /\ lastResp.lvl = 1
     /\ lastResp.attempt = 2
     /\ ReportsExpiry(lastResp.o))
        => /\ outcome.state = "raised"
           /\ outcome.exc.type = "AuthenticationError"
           /\ Len(OrigRequests) = 2

\* C3: with a Token that has neither refresh_token nor device_code, a call whose
\* response reports expired_token fails with AuthenticationError; the first request is
\* the only HTTP request, the held Token is unchanged and the callback is not invoked.
C3_NoCredentialFailsAtOnce ==
    (/\ expired
     /\ ~Truthy(token0.refresh_token)
     /\ ~Truthy(token0.device_code))
        => /\ Len(events) = 1
           /\ events[1].ev = "request"
           /\ token = token0
           /\ outcome.state # "returned"
           /\ (outcome.state = "raised" => outcome.exc.type = "AuthenticationError")
           /\ (outcome.state = "running" => Depth = 1 /\ Top.pc = "refresh")
C3_Witness ==
    /\ expired
    /\ token0.refresh_token = None
    /\ token0.device_code = None
    /\ on_token_refresh
    /\ outcome.state = "raised"
    /\ outcome.exc.type = "AuthenticationError"

\* C4 (as claimed): whatever the server answers, one _api_request invocation performs
\* at most one refresh exchange, at most one Token replacement, at most one callback
\* invocation and at most two requests of the original call.
C4_AtMostOneRefresh ==
    /\ Len(Exchanges) <= 1
    /\ Len(Installs) <= 1
    /\ Len(Callbacks) <= 1
    /\ Len(OrigRequests) <= 2

\* C5: a request of the authenticated call that is answered with an error status fails
\* the call: ServerError for every 5xx status, AuthenticationError for 401, APIError
\* for every other 4xx status.
C5_StatusClassification ==
    (lastResp.lvl = 1 /\ lastResp.o.kind = "status") =>
        /\ outcome.state = "raised"
        /\ (lastResp.o.status >= 500 => outcome.exc.type = "ServerError")
        /\ (lastResp.o.status = 401 => outcome.exc.type = "AuthenticationError")
        /\ (lastResp.o.status >= 400 /\ lastResp.o.status < 500 /\ lastResp.o.status # 401
               => outcome.exc.type = "APIError")
C5_Witness ==
    /\ lastResp.lvl = 1
    /\ lastResp.o.kind = "status"
    /\ lastResp.o.status = 401
    /\ outcome.state = "raised"
    /\ outcome.exc.type = "AuthenticationError"

\* C6: a 2xx JSON object body (not the expiry signal) answering a request of the call:
\* with `result` present and not true the call fails with APIError whose message is the
\* body's `error` field; with no `result` field, or result == true, the body is returned
\* to the caller unchanged.
C6_ResultCheck ==
    (lastResp.lvl = 1 /\ lastResp.o.kind = "object" /\ ~ReportsExpiry(lastResp.o)) =>
        IF ResultFails(lastResp.o)
        THEN /\ outcome.state = "raised"
             /\ outcome.exc.type = "APIError"
             /\ (lastResp.o.error # Absent => outcome.exc.msg = lastResp.o.error)
        ELSE /\ outcome.state = "returned"
             /\ outcome.data = lastResp.o
C6_Witness ==
    /\ lastResp.lvl = 1
    /\ lastResp.o.kind = "object"
    /\ lastResp.o.result = "false"
    /\ lastResp.o.error = "some_message"
    /\ outcome.state = "raised"
    /\ outcome.exc.type = "APIError"
    /\ outcome.exc.msg = "some_message"

\* the first request of the call ended in a failure other than the expiry signal
FirstRequestFailed ==
    /\ lastResp.lvl = 1
    /\ lastResp.attempt = 1
    /\ \/ lastResp.o.kind \in {"neterr", "status"}
       \/ (ResultFails(lastResp.o) /\ ~ReportsExpiry(lastResp.o))

\* C7: when the first request of a call ends in a connection-level failure, an HTTP
\* error status (401 included) or an in-body result failure, that request is the only
\* HTTP request, no refresh happens (the Token is untouched, no callback), and the call
\* fails: with NetworkError for a connection-level failure, with the status'
\* classification for an error status, with APIError for a result failure.
C7_OnlyExpiryIsRecovered ==
    FirstRequestFailed =>
        /\ Len(events) = 1
        /\ IsOrigRequest(events[1])
        /\ token = token0
        /\ outcome.state = "raised"
        /\ (lastResp.o.kind = "neterr" => outcome.exc.type = "NetworkError")
        /\ (lastResp.o.kind = "status" =>
                outcome.exc.type \in {"ServerError", "APIError", "AuthenticationError"})
        /\ (lastResp.o.kind = "object" => outcome.exc.type = "APIError")
C7_Witness ==
    /\ lastResp.lvl = 1
    /\ lastResp.attempt = 1
    /\ lastResp.o.kind = "neterr"
    /\ Len(events) = 1
    /\ outcome.state = "raised"
    /\ outcome.exc.type = "NetworkError"
    /\ Truthy(token0.refresh_token)

\* the refresh started by the call failed in its exchange: the token / device-authorize
\* endpoint answered with a 4xx status, with a result failure, or with a body that has
\* no access_token
ExchangeFailed ==
    /\ outcome.state = "raised"
    /\ expired
    /\ lastResp.lvl = 2
    /\ \A i \in 1..Len(Installs) : Installs[i].lvl # 1
    /\ \/ lastResp.o.kind = "status" /\ lastResp.o.status >= 400 /\ lastResp.o.status < 500
       \/ lastResp.o.kind \in {"object", "array"}

\* C8 (as claimed): any such failure of the refresh exchange makes the enclosing call
\* fail with AuthenticationError, and the retry is never issued.
C8_ExchangeFailureIsAuthenticationError ==
    ExchangeFailed =>
        /\ outcome.exc.type = "AuthenticationError"
        /\ Len(OrigRequests) = 1

\* C9: the callback always runs right after the Token install of the same refresh and
\* finds the client already holding the new Token (the access token of the exchange's
\* response, the other fields as before); if it raises, its exception is what the caller
\* gets, the client still holds the new Token and nothing, in particular no retry, follows.
C9_InstallBeforeCallback ==
    \A i \in 1..Len(events) :
        events[i].ev = "callback" =>
            /\ i > 1
            /\ events[i - 1].ev = "install"
            /\ events[i - 1].lvl = events[i].lvl
            /\ events[i].tok = Token(events[i - 1].access_token,
                                     token0.refresh_token, token0.device_code)
            /\ events[i].tok.access_token \in NewAccessTokens
            /\ (events[i].raised =>
                    /\ i = Len(events)
                    /\ outcome.state = "raised"
                    /\ outcome.exc.type = "CallbackError"
                    /\ token = events[i].tok)
C9_Witness ==
    /\ Len(events) = 4
    /\ events[4].ev = "callback"
    /\ events[4].raised
    /\ events[4].lvl = 1
    /\ outcome.state = "raised"
    /\ outcome.exc.type = "CallbackError"
    /\ token.access_token = "NEW"
    /\ token0.access_token = "OLD"

\* C10 (as claimed): the refresh-token exchange is used whenever refresh_token is
\* present (not None); the device-authorize exchange only when refresh_token is absent
\* and device_code is present.
C10_GrantByPresence ==
    \A i \in 1..Len(events) :
        IsExchange(events[i]) =>
            /\ (events[i].tok.refresh_token # None => events[i].grant = "refresh_token")
            /\ (events[i].grant = "device_code" =>
                    events[i].tok.refresh_token = None /\ events[i].tok.device_code # None)

\* C10 (amended): the refresh-token exchange, against the token endpoint and with the
\* held refresh_token, is used whenever refresh_token is a non-empty string, whether or
\* not device_code is set; the device-authorize exchange, with the held device_code, is
\* used only when refresh_token is None or empty and device_code is a non-empty string.
C10_GrantByTruthiness ==
    \A i \in 1..Len(events) :
        IsExchange(events[i]) =>
            /\ events[i].grant \in {"refresh_token", "device_code"}
            /\ (Truthy(events[i].tok.refresh_token) <=> events[i].grant = "refresh_token")
            /\ (events[i].grant = "refresh_token" =>
                    events[i].url = TOKEN_URL /\ events[i].cred = events[i].tok.refresh_token)
            /\ (events[i].grant = "device_code" =>
                    /\ events[i].url = DEVICE_AUTHORIZE_URL
                    /\ events[i].cred = events[i].tok.device_code
                    /\ ~Truthy(events[i].tok.refresh_token)
                    /\ Truthy(events[i].tok.device_code))
C10_Witness ==
    /\ Len(events) >= 2
    /\ IsExchange(events[2])
    /\ events[2].tok.refresh_token = "R"
    /\ events[2].tok.device_code = "D"
    /\ events[2].grant = "refresh_token"
    /\ events[2].url = TOKEN_URL

(* ------------------------------------------------------------------ *)
(* Reading the state of a serialized Token                             *)
(* ------------------------------------------------------------------ *)
Encoded == form \in {"dict", "json", "base64"}
Intact == damage = "none"
ReadBack == res.kind # "none"
\* text contains sub as a contiguous run
Contains(text, sub) ==
    \E i \in 1..(Len(text) - Len(sub) + 1) : SubSeq(text, i, i + Len(sub) - 1) = sub
FieldNames == {"access_token", "refresh_token", "device_code"}
\* the keys an encoded Token is said to carry
ExpectedKeys(T) ==
    {KeyAccessToken}
    \cup (IF T.refresh_token # PyNone THEN {KeyRefreshToken} ELSE {})
    \cup (IF T.device_code # PyNone THEN {KeyDeviceCode} ELSE {})
\* the mapping that the encoded form holds, whatever the form
Payload ==
    CASE form = "dict" -> wire
      [] form = "json" -> JsonLoads(wire.s).v
      [] form = "base64" -> JsonLoads(Utf8Decode(B64Decode(wire.s).s).s).v

(* ------------------------------------------------------------------ *)
(* The claims, C11 to C14                                              *)
(* ------------------------------------------------------------------ *)
\* C11: a Token whose fields are strings (the optional ones strings or None)
\* that is encoded by to_dict, to_json or to_base64 and read back by the
\* matching from_dict, from_json or from_base64 gives a Token equal to it
C11_RoundTrip ==
    (Encoded /\ Intact /\ ReadBack) => (res.kind = "token" /\ res.tok = tk)

\* a Token with a quote-free but escaped and non-ASCII refresh token and no
\* device code has gone through base64 and back
C11_Witness ==
    /\ form = "base64" /\ Intact /\ res.module = "token"
    /\ tk.refresh_token = PyStr(<<92, 233>>) /\ tk.device_code = PyNone
    /\ tk.access_token = PyStr(<<34>>)
    /\ res.kind = "token" /\ res.tok = tk

\* C12: the mapping produced by to_dict (and so the object inside to_json and
\* to_base64) has exactly the keys access_token, refresh_token iff it is not
\* None, device_code iff it is not None; no key is mapped to None
C12_KeysOfToDict ==
    (Encoded /\ Intact) =>
        /\ Payload.t = "dict"
        /\ Keys(Payload) = ExpectedKeys(tk)
        /\ Len(Payload.pairs) = Cardinality(ExpectedKeys(tk))
        /\ \A i \in 1..Len(Payload.pairs) : Payload.pairs[i][2] # PyNone

\* a Token with an empty refresh token and no device code has been encoded:
\* the empty string is kept, the None is left out
C12_Witness ==
    /\ form = "json" /\ Intact
    /\ tk.refresh_token = PyStr(<<>>) /\ tk.device_code = PyNone
    /\ Keys(Payload) = {KeyAccessToken, KeyRefreshToken}

\* C13: reading back a malformed encoded form (invalid base64, invalid UTF-8,
\* invalid JSON, JSON that is not an object, unknown keys) or one without
\* access_token raises TokenError: no other exception, and no Token
C13_MalformedIsTokenError ==
    (~Intact /\ ReadBack) => (res.kind = "raised" /\ res.exc = "TokenError")

\* C14: neither repr() nor str() of a Token contains the full value of a
\* present secret longer than the shown prefix, and two Tokens that agree on
\* the prefix of every field have the same representation
AgreeOnPrefix(T, U) ==
    \A f \in FieldNames :
        /\ (T[f] = PyNone) = (U[f] = PyNone)
        /\ Prefix(T[f].s, MaskLen) = Prefix(U[f].s, MaskLen)
Shown(f, T) == IF f = "repr" THEN Repr(T) ELSE Str(T)
C14_NoFullSecretShown ==
    form \in {"repr", "str"} =>
        /\ \A f \in FieldNames :
               (tk[f] # PyNone /\ Len(tk[f].s) > MaskLen) => ~Contains(wire.s, tk[f].s)
        /\ \A U \in SampleTokens : AgreeOnPrefix(tk, U) => Shown(form, U) = wire.s

(* ------------------------------------------------------------------ *)
(* Claims about the factories, close() and add_torrent                  *)
(* ------------------------------------------------------------------ *)
\* a factory has been called and has ended
FactoryEnded == op.name \in Factories /\ op.state \in {"raised", "returned"}
\* the factory ended by raising an exception of type `t` and made no instance
FailedWith(t) ==
    /\ op.state = "raised" /\ op.exc.type = t
    /\ op.tok = NoToken
    /\ libClient # "open"
\* the exchange was answered 2xx with a JSON object that has an access_token
ExchangeSucceeded == op.resp.kind = "object" /\ op.resp.access_token # Absent
\* the refresh_token of the response, None when the response has none
EchoedRefreshToken ==
    IF op.resp.refresh_token = Absent THEN None ELSE op.resp.refresh_token

\* C15: each factory classifies a failed exchange the same way: a 4xx answer
\* raises AuthenticationError, a 5xx answer ServerError, a connection failure
\* NetworkError, and in each of these cases no client instance is returned
C15_FailedExchangeClassified ==
    FactoryEnded =>
        /\ (op.resp.kind = "status" /\ op.resp.status >= 400 /\ op.resp.status < 500)
               => FailedWith("AuthenticationError")
        /\ (op.resp.kind = "status" /\ op.resp.status >= 500 /\ op.resp.status < 600)
               => FailedWith("ServerError")
        /\ op.resp.kind = "neterr" => FailedWith("NetworkError")

\* from_device_code was answered 401 on a client it made itself: it raised
\* AuthenticationError and closed that client
C15_Witness ==
    /\ op.name = "from_device_code" /\ ~op.own
    /\ op.resp.kind = "status" /\ op.resp.status = 401
    /\ op.state = "raised" /\ op.exc.type = "AuthenticationError"
    /\ libClient = "closed"

\* C16: from_refresh_token(R), answered 2xx with access token A, returns a
\* client whose Token has access_token A and refresh_token R, whether or not
\* the response has a refresh_token
C16_RefreshTokenKept ==
    (op.name = "from_refresh_token" /\ op.state # "none" /\ ExchangeSucceeded) =>
        /\ op.state = "returned"
        /\ op.tok.access_token = op.resp.access_token
        /\ op.tok.refresh_token = op.cred

C18_LibraryClientReleased ==
    (FactoryEnded /\ op.state = "returned" /\ ~op.own /\ closeCalled # "no")
        => libClient = "closed"

\* C19: a public operation that raises, raises an error of the library's
\* taxonomy
SeedrErrors ==
    {"SeedrError", "APIError", "ServerError", "AuthenticationError", "NetworkError", "TokenError"}
C19_OnlyTypedErrors ==
    op.state = "raised" => op.exc.type \in SeedrErrors

\* C20: the same add_torrent call, with the same Token and the same transport
\* outcomes, makes the same requests and ends the same way on a Seedr and on
\* an AsyncSeedr
C20_SameRuns ==
    runs.source # "not_called" => runs.sync = runs.async

(* ------------------------------------------------------------------ *)
(* Claims about the request bodies                                      *)
(* ------------------------------------------------------------------ *)
\* the number a sequence of decimal digits stands for
RECURSIVE DigitsValue(_)
DigitsValue(d) ==
    IF d = <<>> THEN 0 ELSE 10 * DigitsValue(SubSeq(d, 1, Len(d) - 1)) + (d[Len(d)] - 48)
\* the number an item id stands for
IdNumber(id) == IF id.t = "int" THEN id.n ELSE DigitsValue(id.s)
\* the item type a method deletes or archives
TypeOfMethod(method) ==
    CASE method = "delete_file" -> TypeFile
      [] method = "delete_folder" -> TypeFolder
      [] method = "delete_torrent" -> TypeTorrent
      [] method = "create_archive" -> TypeFolder
\* the body field a method sends
FieldOfMethod(method) == IF method = "create_archive" THEN "archive_arr" ELSE "delete_arr"
\* text is the JSON array [{"type":T,"id":n}] written without any whitespace
\* and with the id as a bare number
IsCompactItemArray(text, T, n) ==
    /\ JsonLoads(text).ok
    /\ JsonLoads(text).v.t = "list"
    /\ Len(JsonLoads(text).v.pairs) = 1
    /\ LET item == JsonLoads(text).v.pairs[1][2]
       IN /\ item.t = "dict"
          /\ Len(item.pairs) = 2
          /\ item.pairs[1] = <<(<<116, 121, 112, 101>>), PyStr(T)>>
          /\ item.pairs[2][1] = <<105, 100>>
          /\ item.pairs[2][2].t = "int"
          /\ DigitsValue(item.pairs[2][2].s) = n
    /\ \A i \in 1..Len(text) : ~IsWs(text[i])
    \* 19 characters of brackets, quotes and key names, the type and the digits
    /\ Len(text) = 19 + Len(T) + Len(JsonLoads(text).v.pairs[1][2].pairs[2][2].s)

\* C21: delete_file / delete_folder / delete_torrent on item id I send a POST
\* with func=delete and the single body field delete_arr, whose value is
\* exactly [{"type":"<file|folder|torrent>","id":I}] with no whitespace and
\* no quotes around the id; create_archive sends archive_arr =
\* [{"type":"folder","id":I}]
C21_EmbeddedArray ==
    sent # NothingSent =>
        /\ sent.http_method = "post"
        /\ DOMAIN sent.data = {FieldOfMethod(sent.method)}
        /\ sent.method # "create_archive" => sent.func = "delete"
        /\ IsCompactItemArray(sent.data[FieldOfMethod(sent.method)],
                              TypeOfMethod(sent.method), IdNumber(sent.id))

\* delete_file(42) has produced the body of the example: [{"type":"file","id":42}]
C21_Witness ==
    /\ sent.method = "delete_file"
    /\ sent.id = IdInt(42)
    /\ sent.data["delete_arr"] =
         <<91, 123, 34, 116, 121, 112, 101, 34, 58, 34, 102, 105, 108, 101, 34, 44,
           34, 105, 100, 34, 58, 52, 50, 125, 93>>

(* ------------------------------------------------------------------ *)
(* Claims about add_torrent                                             *)
(* ------------------------------------------------------------------ *)
\* the argument is a non-empty string
HasTorrentFile == upload.arg.t = "str" /\ Len(upload.arg.s) > 0
\* the argument begins with http:// or with https://
BeginsWithScheme ==
    \/ /\ Len(upload.arg.s) >= 7
       /\ SubSeq(upload.arg.s, 1, 7) = <<104, 116, 116, 112, 58, 47, 47>>
    \/ /\ Len(upload.arg.s) >= 8
       /\ SubSeq(upload.arg.s, 1, 8) = <<104, 116, 116, 112, 115, 58, 47, 47>>
\* the add_torrent request has been sent
HasPosted == \E i \in 1..Len(upload.log) : upload.log[i].ev = "request"

C23_RefreshMakesNewToken ==
    /\ returned # <<>> =>
           /\ objects[self_token].access_token = returned[Len(returned)]
           /\ objects[self_token].refresh_token = objects[1].refresh_token
           /\ objects[self_token].device_code = objects[1].device_code
    /\ kept # 0 => objects[kept] = keptValue

(* ------------------------------------------------------------------ *)
(* Claims about concurrent calls                                        *)
(* ------------------------------------------------------------------ *)
\* every call has ended
AllCallsEnded == \A t \in Callers : callers[t].pc \in {"returned", "raised"}
\* the call has sent its retry
HasRetried(t) == callers[t].retried # 0

\* C24: refreshes of concurrent calls are not merged, and whatever the
\* interleaving the retry of each call carries an access token that a refresh
\* exchange returned, never the one its first request carried
C24_RetryCarriesRefreshedToken ==
    \A t \in Callers :
        HasRetried(t) =>
            /\ callers[t].retried \in 1..issued
            /\ callers[t].retried # callers[t].sent

\* two calls that both were answered expired_token have ended, two exchanges
\* were made and the callback ran twice
C24_Witness ==
    /\ AllCallsEnded
    /\ \A t \in Callers : HasRetried(t) /\ callers[t].sent = 0
    /\ issued = 2
    /\ Len(delivered) = 2

\* C30: once all concurrent calls have ended, the Token the callback received
\* last is the Token the client holds
C30_LastDeliveredIsHeld ==
    (AllCallsEnded /\ delivered # <<>>) => delivered[Len(delivered)] = held

(* ------------------------------------------------------------------ *)
(* Claims about the course of one invocation                            *)
(* ------------------------------------------------------------------ *)
\* the states of an invocation: Requesting, RefreshingToken, Retrying
PhaseOf(pc) ==
    CASE pc = "request" -> "Requesting"
      [] pc \in {"refresh", "exchange", "install", "callback"} -> "RefreshingToken"
      [] pc = "retry" -> "Retrying"
\* the changes of state an invocation may make while it lasts
PhaseChanges == {<<"Requesting", "RefreshingToken">>, <<"RefreshingToken", "Retrying">>}
\* inside RefreshingToken the invocation only goes forward
PcRank(pc) ==
    CASE pc = "request" -> 1 [] pc = "refresh" -> 2 [] pc = "exchange" -> 3
      [] pc = "install" -> 4 [] pc = "callback" -> 5 [] pc = "retry" -> 6
\* one step, seen from every invocation that is live before and after it
StepKeepsCourse ==
    /\ \A i \in 1..Len(stack) :
           i <= Len(stack') =>
               /\ PcRank(stack'[i].pc) >= PcRank(stack[i].pc)
               /\ \/ PhaseOf(stack'[i].pc) = PhaseOf(stack[i].pc)
                  \/ <<PhaseOf(stack[i].pc), PhaseOf(stack'[i].pc)>> \in PhaseChanges
    \* an invocation starts in Requesting
    /\ \A i \in (Len(stack) + 1)..Len(stack') : stack'[i].pc = "request"
    \* the outermost invocation leaves only to Done or Failed
    /\ (stack # <<>> /\ stack' = <<>>) => outcome'.state \in {"returned", "raised"}
    \* a step of the engine moves the innermost invocation on or ends it
    /\ (stack # <<>> /\ Len(stack') = Len(stack)) => PcRank(stack'[Depth].pc) > PcRank(Top.pc)

ResourceRequestAt(i) == events[i].ev = "request" /\ events[i].url = RESOURCE_URL
\* the Token replacements that precede place i
InstallsBefore(i) == { j \in 1..(i - 1) : events[j].ev = "install" }
\* the latest of them
LastInstallBefore(i) == CHOOSE j \in InstallsBefore(i) : \A k \in InstallsBefore(i) : k <= j

\* C26: every request sent to the resource endpoint carries the endpoint name
\* of the operation as func and, as access_token, the access token of the Token
\* the client holds when the request is sent: the Token the call started with
\* on the first attempt, the access token the latest exchange returned on a
\* retry, and on a later call the refreshed one
C26_RequestCarriesHeldToken ==
    \A i \in 1..Len(events) :
        ResourceRequestAt(i) =>
            /\ events[i].access_token = events[i].tok.access_token
            /\ events[i].func \in Funcs
            /\ events[i].func = events[1].func
            /\ stack # <<>> => events[i].func = stack[1].func
            /\ events[i].attempt = 1 => events[i].access_token = token0.access_token
            /\ InstallsBefore(i) # {} =>
                   /\ events[i].attempt = 2
                   /\ events[i].access_token = events[LastInstallBefore(i)].access_token
                   /\ events[i].access_token \in NewAccessTokens

\* a later call, made after a refresh, sent the refreshed access token
C26_Witness ==
    /\ calls = 2
    /\ token0.access_token \in NewAccessTokens
    /\ Len(events) >= 1
    /\ ResourceRequestAt(1)
    /\ events[1].access_token = token0.access_token

(* ------------------------------------------------------------------ *)
(* Claims about the public refresh_token()                             *)
(* ------------------------------------------------------------------ *)
\* the exchange of the refresh_token() call that ended was answered, last of all
\* requests, with a token response: access_token, expires_in and token_type, no error
PublicExchangeSucceeded ==
    /\ lastResp.lvl = 2
    /\ IsDict(lastResp.o)
    /\ lastResp.o.error = Absent
    /\ ~ResultFails(lastResp.o)
    /\ lastResp.o.access_token # Absent
    /\ lastResp.o.rest # Absent

\* C27 (as claimed): refresh_token() does what the automatic refresh does: after
\* a successful exchange the held Token carries the returned access token and the
\* other fields it had, a registered callback was invoked exactly once, with that
\* Token, and the result of the exchange is returned; with neither a refresh
\* token nor a device code it raises AuthenticationError and nothing was sent
C27_PublicRefreshAsAutomatic ==
    Finished =>
        /\ RefreshGrant(token0) = "none" =>
               /\ outcome.state = "raised"
               /\ outcome.exc.type = "AuthenticationError"
               /\ events = <<>>
               /\ token = token0
        /\ (PublicExchangeSucceeded /\ ~CallbackRaised) =>
               /\ token = Token(lastResp.o.access_token, token0.refresh_token, token0.device_code)
               /\ Len(Callbacks) = (IF on_token_refresh THEN 1 ELSE 0)
               /\ \A i \in 1..Len(Callbacks) : Callbacks[i].tok = token
               /\ outcome = Returned(RefreshTokenResult(lastResp.o))

(* ------------------------------------------------------------------ *)
(* Claims about who closes the httpx client                            *)
(* ------------------------------------------------------------------ *)
\* C28 (as claimed): once close() or __exit__ has run on a client, the httpx
\* client under it is closed exactly when the library made it; an httpx client
\* passed in by the caller is never closed, whatever ran; and a factory whose
\* exchange failed has closed the httpx client it made by the time it raises
C28_ClientOwnership ==
    /\ (op.state = "returned" /\ closeCalled # "no") => (libClient = "closed" <=> ~op.own)
    /\ ownClient # "closed"
    /\ (op.name \in Factories /\ op.state = "raised" /\ ~op.own) => libClient = "closed"

(* ------------------------------------------------------------------ *)
(* Claims about a call that fails before any refresh succeeded         *)
(* ------------------------------------------------------------------ *)
\* the last response was a body of the token / device-authorize endpoint that
\* carries an access token and passes the result check
LastWasTokenResponse ==
    /\ lastResp.lvl >= 2
    /\ lastResp.o.kind = "object"
    /\ lastResp.o.access_token # Absent
    /\ ~ResultFails(lastResp.o)
\* the call failed and no exchange had succeeded: nothing was retried, at any
\* level, and the last response was not a token response. This is the first
\* request failing, a Token without refresh credential, an exchange that ends
\* in an error, and an exchange whose response lacks access_token.
FailedBeforeRefresh ==
    /\ outcome.state = "raised"
    /\ \A i \in 1..Len(events) : events[i].ev = "request" => events[i].attempt = 1
    /\ ~LastWasTokenResponse

\* C29: a call that fails before any refresh exchange has succeeded leaves the
\* client holding the Token it held before the call, and the callback has not
\* been invoked
C29_FailureKeepsToken ==
    FailedBeforeRefresh =>
        /\ token = token0
        /\ Len(Callbacks) = 0
        /\ Len(Installs) = 0

\* the exchange was answered with a body that lacks access_token, on a client
\* with a callback
C29_Witness ==
    /\ FailedBeforeRefresh
    /\ expired
    /\ on_token_refresh
    /\ lastResp.lvl = 2
    /\ lastResp.o.kind = "object"
    /\ lastResp.o.access_token = Absent
    /\ ~ResultFails(lastResp.o)
    /\ outcome.exc.type = "AuthenticationError"

====
